---------------------------- MODULE Spec2Model ----------------------------
(***************************************************************************)
(* State-machine model of the text-extraction core (trafilatura core.py,   *)
(* external.py, xml.py) found in this repository.                          *)
(*                                                                         *)
(* The module holds several specifications, one per component:             *)
(*   SpecArbiter   compare_extraction, Step 1 (readability vs. custom)     *)
(*   SpecRun       bare_extraction / extract, the gating pipeline          *)
(*   SpecExtract   extract_comments followed by extract_content            *)
(*   SpecTxt       xmltotxt                                                *)
(*   SpecSanitize  sanitize_tree                                           *)
(*   SpecOutput    build_xml_output followed by xmltotxt                   *)
(*   SpecTreeSize  the tree size sanity check of bare_extraction           *)
(*   SpecTable     handle_table                                            *)
(*   SpecCompare   compare_extraction as a whole, with failing fallbacks   *)
(*   SpecTei       validate_tei called from several threads                *)
(*   SpecCheckTei  check_tei                                               *)
(*   SpecBaseline  baseline                                                *)
(*   SpecScraping  scraping.py: getinfo and the module-level palmareslist  *)
(* Each specification drives its own variable and leaves the others idle.  *)
(*                                                                         *)
(* Texts are sequences of tokens.  A token stands for a run of             *)
(* non-whitespace characters; None and the empty string are both the       *)
(* empty sequence, and whitespace (hence trim) is not represented.         *)
(***************************************************************************)
EXTENDS Integers, Sequences, FiniteSets, TLC

VARIABLES arb, run, ext, txt, san, tab, out, tei, cmp, cap, chk, bas, scr

vars == <<arb, run, ext, txt, san, tab, out, tei, cmp, cap, chk, bas, scr>>

\* what each specification leaves alone
notArb == <<run, ext, txt, san, tab, out, tei, cmp, cap, chk, bas, scr>>
notRun == <<arb, ext, txt, san, tab, out, tei, cmp, cap, chk, bas, scr>>
notExt == <<arb, run, txt, san, tab, out, tei, cmp, cap, chk, bas, scr>>
notTxt == <<arb, run, ext, san, tab, out, tei, cmp, cap, chk, bas, scr>>
notSan == <<arb, run, ext, txt, tab, out, tei, cmp, cap, chk, bas, scr>>
notTab == <<arb, run, ext, txt, san, out, tei, cmp, cap, chk, bas, scr>>
notOut == <<arb, run, ext, txt, san, tab, tei, cmp, cap, chk, bas, scr>>
notTei == <<arb, run, ext, txt, san, tab, out, cmp, cap, chk, bas, scr>>
notCmp == <<arb, run, ext, txt, san, tab, out, tei, cap, chk, bas, scr>>
notCap == <<arb, run, ext, txt, san, tab, out, tei, cmp, chk, bas, scr>>
notChk == <<arb, run, ext, txt, san, tab, out, tei, cmp, cap, bas, scr>>
notBas == <<arb, run, ext, txt, san, tab, out, tei, cmp, cap, chk, scr>>
notScr == <<arb, run, ext, txt, san, tab, out, tei, cmp, cap, chk, bas>>

Idle == [pc |-> "idle"]

(***************************************************************************)
(* Bounds.                                                                 *)
(***************************************************************************)
\* largest text length (len_text, len_algo) and largest size threshold drawn
MaxLen == 50

Lens == 0..MaxLen

\* largest max_tree_size a run is configured with
MaxTreeSize == 2

\* number of elements of a source document, its root not counted
MaxNodes == 3

\* largest MIN_EXTRACTED_SIZE (in tokens) an extraction is configured with
MaxMinSize == 3

(***************************************************************************)
(* compare_extraction, Step 1 (core.py 402-426).                           *)
(*   len_text   length of the custom extraction's text                     *)
(*   len_algo   length of the readability result's text                    *)
(*   p_text     truth value of body.xpath('//p//text()')                   *)
(*   min_size   MIN_EXTRACTED_SIZE, imported from settings                 *)
(***************************************************************************)

\* the conditions of the if/elif chain, as written in the source
Cond1(a) == a.len_algo = 0 \/ a.len_algo = a.len_text
Cond2(a) == a.len_text = 0 /\ a.len_algo > 0
Cond3(a) == a.len_text > 2 * a.len_algo
Cond4Swapped(a) == 2 * a.len_algo > a.len_text
Cond4(a) == a.len_algo > 2 * a.len_text
Cond5(a) == ~a.p_text /\ a.len_algo > a.min_size

\* a branch of the chain is taken when its condition holds and no earlier one did
Branch1(a) == Cond1(a)
Branch2(a) == ~Cond1(a) /\ Cond2(a)
Branch3(a) == ~Cond1(a) /\ ~Cond2(a) /\ Cond3(a)
Branch4If(a) == Cond4(a)
Branch4(a) == ~Cond1(a) /\ ~Cond2(a) /\ ~Cond3(a) /\ Cond4(a)
Branch5NoSize(a) == ~Cond1(a) /\ ~Cond2(a) /\ ~Cond3(a) /\ ~Cond4(a) /\ ~a.p_text
Branch5(a) == ~Cond1(a) /\ ~Cond2(a) /\ ~Cond3(a) /\ ~Cond4(a) /\ Cond5(a)
Branch6(a) == ~Cond1(a) /\ ~Cond2(a) /\ ~Cond3(a) /\ ~Cond4(a) /\ ~Cond5(a)

BranchTaken(a, k) ==
    CASE k = 1 -> Branch1(a)
      [] k = 2 -> Branch2(a)
      [] k = 3 -> Branch3(a)
      [] k = 4 -> Branch4(a)
      [] k = 5 -> Branch5(a)
      [] k = 6 -> Branch6(a)

\* the assignment a branch makes: algo_flag = value, once
Assign(a, k, value) ==
    [a EXCEPT !.pc = "step1_done", !.algo_flag = value, !.branch = k,
              !.assigned = @ + 1]

ArbInit ==
    /\ arb \in [pc : {"step1"}, len_text : Lens, len_algo : Lens,
                p_text : BOOLEAN, min_size : Lens,
                algo_flag : {FALSE}, branch : {0}, assigned : {0}]
    /\ run = Idle /\ ext = Idle /\ txt = Idle /\ san = Idle
    /\ tab = Idle /\ out = Idle /\ tei = Idle /\ cmp = Idle /\ cap = Idle
    /\ chk = Idle /\ bas = Idle /\ scr = Idle

KeepCustomEqual ==      \* if len_algo in (0, len_text): algo_flag = False
    /\ arb.pc = "step1" /\ Branch1(arb)
    /\ arb' = Assign(arb, 1, FALSE)
    /\ UNCHANGED notArb

UseGenericEmpty ==      \* elif len_text == 0 and len_algo > 0: algo_flag = True
    /\ arb.pc = "step1" /\ Branch2(arb)
    /\ arb' = Assign(arb, 2, TRUE)
    /\ UNCHANGED notArb

KeepCustomLonger ==     \* elif len_text > 2*len_algo: algo_flag = False
    /\ arb.pc = "step1" /\ Branch3(arb)
    /\ arb' = Assign(arb, 3, FALSE)
    /\ UNCHANGED notArb

UseGenericLonger ==     \* elif len_algo > 2*len_text: algo_flag = True
    /\ arb.pc = "step1" /\ Branch4(arb)
    /\ arb' = Assign(arb, 4, TRUE)
    /\ UNCHANGED notArb

UseGenericBorderline == \* elif not body.xpath(..) and len_algo > MIN_EXTRACTED_SIZE
    /\ arb.pc = "step1" /\ Branch5(arb)
    /\ arb' = Assign(arb, 5, TRUE)
    /\ UNCHANGED notArb

KeepCustomDefault ==    \* else: algo_flag = False
    /\ arb.pc = "step1" /\ Branch6(arb)
    /\ arb' = Assign(arb, 6, FALSE)
    /\ UNCHANGED notArb

ArbNext ==
    \/ KeepCustomEqual
    \/ UseGenericEmpty
    \/ KeepCustomLonger
    \/ UseGenericLonger
    \/ UseGenericBorderline
    \/ KeepCustomDefault

SpecArbiter == ArbInit /\ [][ArbNext]_vars

(***************************************************************************)
(* bare_extraction and extract (core.py 543-659): the gating pipeline.     *)
(* run.pc is the position in the code; run.ran lists the pipeline steps    *)
(* executed so far and run.failed the gating checks whose test came out    *)
(* as a failure.  The collaborators (load_html, extract_metadata,          *)
(* duplicate_test, language_filter, ...) answer nondeterministically.      *)
(***************************************************************************)
Formats == {"txt", "csv", "json", "xml", "xmltei"}

\* the order of the pipeline steps in the source
StepOrder ==
    <<"load_html", "extract_metadata", "tree_cleaning", "extract_comments",
      "extract_content", "compare_extraction", "baseline", "tree_size",
      "size_checks", "duplicate_test", "language_filter", "return",
      "content_fingerprint", "determine_returnstring">>

StepIndex(s) == CHOOSE i \in 1..Len(StepOrder) : StepOrder[i] = s

Ran(r, s) == [r EXCEPT !.ran = Append(@, s)]

\* raise ValueError inside the try block: control goes to the except clause
\* (next is the statement that follows the raise, which is not reached)
RaiseLogOnly(r, gate, next) == [Ran(r, gate) EXCEPT !.failed = @ \cup {gate}, !.pc = next]
Raise(r, gate, next) == [Ran(r, gate) EXCEPT !.failed = @ \cup {gate}, !.pc = "except"]

Pass(r, step, next) == [Ran(r, step) EXCEPT !.pc = next]

RunConfigs ==
    [output_format : Formats, no_fallback : BOOLEAN, include_comments : BOOLEAN,
     with_metadata : BOOLEAN, deduplicate : BOOLEAN, target_language : BOOLEAN,
     max_tree_size : 0..MaxTreeSize]   \* 0 stands for max_tree_size=None

RunInit ==
    /\ \E c \in RunConfigs :
          run = [pc |-> "load_html", cfg |-> c, ran |-> <<>>, failed |-> {},
                 sure_thing |-> FALSE, short_text |-> FALSE, content |-> "none",
                 bare |-> "pending", result |-> "pending"]
    /\ arb = Idle /\ ext = Idle /\ txt = Idle /\ san = Idle
    /\ tab = Idle /\ out = Idle /\ tei = Idle /\ cmp = Idle /\ cap = Idle
    /\ chk = Idle /\ bas = Idle /\ scr = Idle

\* tree = load_html(filecontent); if tree is None: raise ValueError
LoadHtml ==
    /\ run.pc = "load_html"
    /\ \E parsed \in BOOLEAN :
          run' = IF parsed
                 THEN Pass(run, "load_html",
                           IF run.cfg.output_format # "txt" THEN "extract_metadata"
                                                            ELSE "tree_cleaning")
                 ELSE Raise(run, "load_html", "tree_cleaning")
    /\ UNCHANGED notRun

\* extract_metadata, then the blacklist and the strict-mode gates
ExtractMetadata ==
    /\ run.pc = "extract_metadata"
    /\ \E blacklisted \in BOOLEAN, missing \in BOOLEAN :
          run' = IF blacklisted THEN Raise(run, "extract_metadata", "tree_cleaning")
                 ELSE IF run.cfg.with_metadata /\ missing
                      THEN Raise(run, "extract_metadata", "tree_cleaning")
                      ELSE Pass(run, "extract_metadata", "tree_cleaning")
    /\ UNCHANGED notRun

\* tree_cleaning and convert_tags
CleanTree ==
    /\ run.pc = "tree_cleaning"
    /\ run' = Pass(run, "tree_cleaning",
                   IF run.cfg.include_comments THEN "extract_comments"
                                               ELSE "extract_content")
    /\ UNCHANGED notRun

RunExtractComments ==
    /\ run.pc = "extract_comments"
    /\ run' = Pass(run, "extract_comments", "extract_content")
    /\ UNCHANGED notRun

\* the rescue is tried whenever the text is short, whatever the confidence
AfterContentAnyConfidence(no_fallback, sure_thing, short) ==
    IF ~no_fallback THEN "compare_extraction"
    ELSE IF short THEN "baseline" ELSE "tree_size"
\* if no_fallback is False: compare_extraction(...)
\* else: if sure_thing is False and len_text < MIN_EXTRACTED_SIZE: baseline(...)
AfterContent(no_fallback, sure_thing, short) ==
    IF ~no_fallback THEN "compare_extraction"
    ELSE IF ~sure_thing /\ short THEN "baseline" ELSE "tree_size"

\* postbody, temp_text, len_text, sure_thing = extract_content(...);
\* short stands for len_text < MIN_EXTRACTED_SIZE, content for the step whose
\* result postbody, temp_text and len_text hold
RunExtractContent ==
    /\ run.pc = "extract_content"
    /\ \E sure \in BOOLEAN, short \in BOOLEAN :
          run' = [Pass(run, "extract_content", AfterContent(run.cfg.no_fallback, sure, short))
                  EXCEPT !.sure_thing = sure, !.short_text = short,
                         !.content = "extract_content"]
    /\ UNCHANGED notRun

\* postbody, temp_text, len_text = compare_extraction(...)
RunCompareExtraction ==
    /\ run.pc = "compare_extraction"
    /\ run' = [Pass(run, "compare_extraction", "tree_size")
               EXCEPT !.content = "compare_extraction"]
    /\ UNCHANGED notRun

\* postbody, temp_text, len_text = baseline(filecontent)
RunBaseline ==
    /\ run.pc = "baseline"
    /\ run' = [Pass(run, "baseline", "tree_size") EXCEPT !.content = "baseline"]
    /\ UNCHANGED notRun

\* the tree size sanity check: strip 'hi' once, recheck, raise when still too long
TreeSizeCheck ==
    /\ run.pc = "tree_size"
    /\ \E size \in 0..MaxTreeSize + 1, hi \in 0..MaxTreeSize + 1 :
          /\ hi <= size
          /\ run' = IF run.cfg.max_tree_size # 0
                       /\ size > run.cfg.max_tree_size
                       /\ size - hi > run.cfg.max_tree_size
                    THEN Raise(run, "tree_size", "size_checks")
                    ELSE Pass(run, "tree_size", "size_checks")
    /\ UNCHANGED notRun

\* if len_text < MIN_OUTPUT_SIZE and len_comments < MIN_OUTPUT_COMM_SIZE: raise
SizeChecks ==
    /\ run.pc = "size_checks"
    /\ \E text_small \in BOOLEAN, comments_small \in BOOLEAN :
          run' = IF text_small /\ comments_small
                 THEN Raise(run, "size_checks", "duplicate_test")
                 ELSE Pass(run, "size_checks", "duplicate_test")
    /\ UNCHANGED notRun

\* if deduplicate is True and duplicate_test(postbody) is True: raise
DuplicateCheck ==
    /\ run.pc = "duplicate_test"
    /\ run' \in
         IF run.cfg.deduplicate
         THEN {Raise(run, "duplicate_test", "language_filter"), Pass(run, "duplicate_test", "language_filter")}
         ELSE {[run EXCEPT !.pc = "language_filter"]}
    /\ UNCHANGED notRun

\* if target_language is not None and language_filter(...) is True: raise
LanguageCheck ==
    /\ run.pc = "language_filter"
    /\ run' \in
         IF run.cfg.target_language
         THEN {Raise(run, "language_filter", "return"), Pass(run, "language_filter", "return")}
         ELSE {[run EXCEPT !.pc = "return"]}
    /\ UNCHANGED notRun

\* except ValueError: return None, None, None, None
Discard ==
    /\ run.pc = "except"
    /\ run' = [run EXCEPT !.pc = "extract", !.bare = "none"]
    /\ UNCHANGED notRun

\* return docmeta, temp_text, postbody, commentsbody
ReturnTuple ==
    /\ run.pc = "return"
    /\ run' = [Pass(run, "return", "extract") EXCEPT !.bare = "tuple"]
    /\ UNCHANGED notRun

\* extract: if docmeta is None: return None
ExtractCheck ==
    /\ run.pc = "extract"
    /\ run' = IF run.bare = "none"
              THEN [run EXCEPT !.pc = "done", !.result = "None"]
              ELSE [run EXCEPT !.pc = IF run.cfg.output_format # "txt"
                                      THEN "content_fingerprint"
                                      ELSE "determine_returnstring"]
    /\ UNCHANGED notRun

ContentFingerprint ==
    /\ run.pc = "content_fingerprint"
    /\ run' = Pass(run, "content_fingerprint", "determine_returnstring")
    /\ UNCHANGED notRun

\* xml.xmltotxt, what a call ends with: 'xmloutput.xpath('//hi|//link')' is
\* an attribute access on its argument, and None has no attribute xpath
XmlToTxtEnds(is_none) == IF is_none THEN "AttributeError" ELSE "string"

\* xml.build_json_output, 'outputdict['comments'] = xmltotxt(commentsbody)'
BuildJsonEnds(commentsbody_is_none) == XmlToTxtEnds(commentsbody_is_none)

\* core.determine_returnstring, what a call ends with: csv tests
\* 'if commentsbody is not None' before xmltotxt, build_xml_output and
\* write_teitree test it before they use the comments, json does not
ReturnstringEnds(output_format, commentsbody_is_none) ==
    IF output_format = "json" THEN BuildJsonEnds(commentsbody_is_none) ELSE "string"

\* extract: return determine_returnstring(docmeta, postbody, commentsbody, ...);
\* commentsbody is None when include_comments is not True (core.py 582-585)
DetermineReturnstring ==
    /\ run.pc = "determine_returnstring"
    /\ run' = [Pass(run, "determine_returnstring", "done") EXCEPT
                  !.result = ReturnstringEnds(run.cfg.output_format,
                                              ~run.cfg.include_comments)]
    /\ UNCHANGED notRun

RunNext ==
    \/ LoadHtml
    \/ ExtractMetadata
    \/ CleanTree
    \/ RunExtractComments
    \/ RunExtractContent
    \/ RunCompareExtraction
    \/ RunBaseline
    \/ TreeSizeCheck
    \/ SizeChecks
    \/ DuplicateCheck
    \/ LanguageCheck
    \/ Discard
    \/ ReturnTuple
    \/ ExtractCheck
    \/ ContentFingerprint
    \/ DetermineReturnstring

SpecRun == RunInit /\ [][RunNext]_vars

(***************************************************************************)
(* lxml element trees.  A heap A is a sequence of nodes; a node is named   *)
(* by its index.  A node holds its tag, text, tail, children and two       *)
(* attributes: match (the candidate query its id/class satisfies) and role.*)
(* 0 stands for None.  A removed node stays in the heap, unreachable.      *)
(***************************************************************************)
None == 0

Element(tag) ==
    [tag |-> tag, text |-> <<>>, tail |-> <<>>, kids |-> <<>>, match |-> "none",
     role |-> ""]

\* etree.Element(tag): the new node is Len(A) + 1
NewElement(A, tag) == Append(A, Element(tag))

RECURSIVE Pre(_, _), PreKids(_, _, _)
\* element.iter() on an unchanging tree: the subtree in document order
Pre(A, n) == <<n>> \o PreKids(A, A[n].kids, 1)
PreKids(A, ks, i) ==
    IF i > Len(ks) THEN <<>> ELSE Pre(A, ks[i]) \o PreKids(A, ks, i + 1)

\* element.xpath('.//*'): the descendants, as a list
Descendants(A, n) == Tail(Pre(A, n))

RECURSIVE IterText(_, _), IterTextKids(_, _, _)
\* ''.join(element.itertext()): own text, then each child's text and tail
IterText(A, n) == A[n].text \o IterTextKids(A, A[n].kids, 1)
IterTextKids(A, ks, i) ==
    IF i > Len(ks) THEN <<>>
    ELSE IterText(A, ks[i]) \o A[ks[i]].tail \o IterTextKids(A, ks, i + 1)

Range(f) == {f[i] : i \in DOMAIN f}

\* element.getparent()
Parent(A, n) ==
    IF \E p \in DOMAIN A : n \in Range(A[p].kids)
    THEN CHOOSE p \in DOMAIN A : n \in Range(A[p].kids)
    ELSE None

\* element.getnext()
NextSibling(A, n) ==
    LET p == Parent(A, n) IN
    IF p = None THEN None
    ELSE LET ks == A[p].kids
             j == CHOOSE i \in DOMAIN ks : ks[i] = n
         IN IF j < Len(ks) THEN ks[j + 1] ELSE None

\* element.getprevious()
Previous(A, n) ==
    LET p == Parent(A, n) IN
    IF p = None THEN None
    ELSE LET ks == A[p].kids
             j == CHOOSE i \in DOMAIN ks : ks[i] = n
         IN IF j > 1 THEN ks[j - 1] ELSE None

\* parent.remove(element): the element leaves with its subtree and its tail
Remove(A, n) ==
    LET p == Parent(A, n) IN
    IF p = None THEN A
    ELSE [A EXCEPT ![p].kids = SelectSeq(@, LAMBDA k : k # n)]

\* parent.append(element): an element that has a parent is moved, tail included
AppendChild(A, p, n) == [Remove(A, n) EXCEPT ![p].kids = Append(@, n)]

RECURSIVE Extend(_, _, _, _)
\* parent.extend(elements)
Extend(A, p, es, i) ==
    IF i > Len(es) THEN A ELSE Extend(AppendChild(A, p, es[i]), p, es, i + 1)

\* the iterators of lxml compute the element after the current one before
\* the loop body runs on the current one
RECURSIVE ClimbNext(_, _, _)
ClimbNext(A, top, c) ==
    IF c = top THEN None
    ELSE IF NextSibling(A, c) # None THEN NextSibling(A, c)
    ELSE IF Parent(A, c) = None THEN None
    ELSE ClimbNext(A, top, Parent(A, c))

NextNode(A, top, c) ==
    IF A[c].kids # <<>> THEN A[c].kids[1] ELSE ClimbNext(A, top, c)

RECURSIVE NextMatch(_, _, _, _)
\* the next element of top.iter(*tags) after c; tags = {} iterates every tag
NextMatch(A, top, c, tags) ==
    LET n == NextNode(A, top, c) IN
    IF n = None THEN None
    ELSE IF tags = {} \/ A[n].tag \in tags THEN n
    ELSE NextMatch(A, top, n, tags)

FirstMatch(A, top, tags) ==
    IF tags = {} \/ A[top].tag \in tags THEN top ELSE NextMatch(A, top, top, tags)

\* text merged into what precedes it: the tail of the last element of acc,
\* or the text of n when acc is empty
AddText(A, n, acc, t) ==
    IF t = <<>> THEN A
    ELSE IF acc = <<>> THEN [A EXCEPT ![n].text = @ \o t]
    ELSE [A EXCEPT ![acc[Len(acc)]].tail = @ \o t]

RECURSIVE StripTags(_, _, _), StripTagsKids(_, _, _, _), Splice(_, _, _, _, _, _)
\* etree.strip_tags(n, *tags): every element below n with such a tag is
\* replaced by its text, its children and its tail; n itself is kept
StripTags(A, n, tags) ==
    LET B == StripTagsKids(A, A[n].kids, 1, tags)
    IN Splice(B, n, B[n].kids, 1, <<>>, tags)
StripTagsKids(A, ks, i, tags) ==
    IF i > Len(ks) THEN A
    ELSE StripTagsKids(StripTags(A, ks[i], tags), ks, i + 1, tags)
Splice(A, n, ks, i, acc, tags) ==
    IF i > Len(ks) THEN [A EXCEPT ![n].kids = acc]
    ELSE LET k == ks[i] IN
         IF A[k].tag \in tags
         THEN LET A1 == AddText(A, n, acc, A[k].text)
                  acc1 == acc \o A1[k].kids
                  A2 == AddText(A1, n, acc1, A1[k].tail)
              IN Splice([A2 EXCEPT ![k].kids = <<>>, ![k].text = <<>>, ![k].tail = <<>>],
                        n, ks, i + 1, acc1, tags)
         ELSE Splice(A, n, ks, i + 1, Append(acc, k), tags)

RECURSIVE StripElements(_, _, _), StripElementsKids(_, _, _, _)
\* etree.strip_elements(n, *tags) (with_tail=True): every element below n
\* with such a tag is removed with its subtree and its tail
StripElements(A, n, tags) ==
    LET keep == SelectSeq(A[n].kids, LAMBDA k : A[k].tag \notin tags)
    IN StripElementsKids([A EXCEPT ![n].kids = keep], keep, 1, tags)
StripElementsKids(A, ks, i, tags) ==
    IF i > Len(ks) THEN A
    ELSE StripElementsKids(StripElements(A, ks[i], tags), ks, i + 1, tags)

\* the nodes of the tree rooted at n
Nodes(A, n) == Range(Pre(A, n))

\* tree.xpath('//*[...]') for a candidate query: the matching elements of the
\* document of root, in document order
XPathMatch(A, root, q) == SelectSeq(Pre(A, root), LAMBDA n : A[n].match = q)


(***************************************************************************)
(* Collaborators of core.py that live in htmlprocessing.py, filters.py,    *)
(* settings.py and xpaths.py.  They are modelled from their contracts:     *)
(* the text filters and the duplicate test accept every element.           *)
(***************************************************************************)
Ret(A, r) == [A |-> A, r |-> r]

\* a value that the statements after an assignment use: it is computed once
\* and handed to them
Bind(value, Rest(_)) == Rest(value)

\* settings.TAG_CATALOG: the base vocabulary of the potential-tag set
TAG_CATALOG == {"p", "head", "list", "item", "quote", "row", "cell", "lb", "hi", "fw"}

\* the candidate queries, in the order they are tried
BODY_XPATH == <<"body1", "body2">>
COMMENTS_XPATH == <<"comments1", "comments2">>

\* filters.text_chars_test: the string holds something else than whitespace
text_chars_test(s) == s # <<>>

\* htmlprocessing.process_node: a consumed or empty node gives None,
\* any other node is returned as it is
process_node(A, e) ==
    IF A[e].tag = "done" THEN None
    ELSE IF A[e].kids = <<>> /\ A[e].text = <<>> /\ A[e].tail = <<>> THEN None
    ELSE e

\* htmlprocessing.handle_textnode: the node is processed as a leaf text node
\* and discarded (None) when it is empty, that is, has neither text nor tail
handle_textnode(A, e, comments_fix) ==
    IF A[e].text = <<>> /\ A[e].tail = <<>> THEN Ret(A, None) ELSE Ret(A, e)

\* the text found inside anchors below e, and the link-density tests: a
\* subtree is link-dense when it has text and all of it is anchor text
RECURSIVE AnchorText(_, _), AnchorTextKids(_, _, _)
AnchorText(A, n) ==
    IF A[n].tag = "a" THEN IterText(A, n) ELSE AnchorTextKids(A, A[n].kids, 1)
AnchorTextKids(A, ks, i) ==
    IF i > Len(ks) THEN <<>>
    ELSE AnchorText(A, ks[i]) \o AnchorTextKids(A, ks, i + 1)

link_density_test(A, e) ==
    IterText(A, e) # <<>> /\ Len(AnchorText(A, e)) = Len(IterText(A, e))

link_density_test_tables(A, e) == link_density_test(A, e)

RECURSIVE RemoveAll(_, _, _)
RemoveAll(A, ns, i) ==
    IF i > Len(ns) THEN A ELSE RemoveAll(Remove(A, ns[i]), ns, i + 1)

\* htmlprocessing.discard_unwanted: the elements below the subtree that match
\* a discard query are removed
discard_unwanted(A, subtree) ==
    RemoveAll(A, SelectSeq(Descendants(A, subtree), LAMBDA n : A[n].match = "discard"), 1)

discard_unwanted_comments(A, subtree) == discard_unwanted(A, subtree)

(***************************************************************************)
(* The per-tag handlers of core.py.  Each takes the heap and returns the   *)
(* heap it leaves and the element it returns (None when it returns None).  *)
(***************************************************************************)

\* element.attrib.clear()
ClearAttrib(A, e) == [A EXCEPT ![e].match = "none", ![e].role = ""]

\* core.handle_titles
handle_titles(A, element) ==
    LET B == [A EXCEPT ![element].tail = <<>>]
        title == process_node(B, element)
    IN IF title # None /\ B[title].text # <<>> THEN Ret(B, title) ELSE Ret(B, None)

\* core.handle_formatting
handle_formatting(A, element) ==
    IF A[element].text # <<>> \/ A[element].tail # <<>>
    THEN LET processed_element == Len(A) + 1
             processed_child == Len(A) + 2
             B == NewElement(NewElement(A, "p"), A[element].tag)
         IN Ret([B EXCEPT ![processed_element].kids = <<processed_child>>,
                          ![processed_child].text = A[element].text,
                          ![processed_child].tail = A[element].tail],
                processed_element)
    ELSE Ret(A, None)

\* etree.SubElement(parent, tag) with text and tail set
SubElementWith(A, parent, tag, text, tail) ==
    LET n == Len(A) + 1
    IN [NewElement(A, tag) EXCEPT ![n].text = text, ![n].tail = tail,
                                  ![parent].kids = Append(@, n)]

RECURSIVE ListSubLoop(_, _, _, _)
\* handle_lists, the loop 'for subelem in child.iter()' of an item with children
ListSubLoop(A, child, newchildelem, subelem) ==
    IF subelem = None THEN A
    ELSE LET nxt == NextMatch(A, child, subelem, {})
             h == handle_textnode(A, subelem, FALSE)
             B == IF h.r # None
                  THEN SubElementWith(h.A, newchildelem, h.A[h.r].tag,
                                      h.A[h.r].text, h.A[h.r].tail)
                  ELSE h.A
         IN ListSubLoop([B EXCEPT ![subelem].tag = "done"], child, newchildelem, nxt)

RECURSIVE ListLoop(_, _, _, _)
\* handle_lists, the loop 'for child in element.iter('item')'
ListLoop(A, element, processed_element, child) ==
    IF child = None THEN A
    ELSE Bind(NewElement(A, "item"), LAMBDA A0 :
         Bind(IF A0[child].kids = <<>>
              THEN IF process_node(A0, child) # None
                   THEN AppendChild([A0 EXCEPT ![Len(A) + 1].text = A0[process_node(A0, child)].text,
                                               ![Len(A) + 1].tail = A0[process_node(A0, child)].tail],
                                    processed_element, Len(A) + 1)
                   ELSE A0
              ELSE StripTags(ListSubLoop(A0, child, Len(A) + 1, FirstMatch(A0, child, {})),
                             Len(A) + 1, {"item"}), LAMBDA A1 :
         Bind(IF A1[Len(A) + 1].text # <<>> \/ A1[Len(A) + 1].kids # <<>>
              THEN AppendChild(A1, processed_element, Len(A) + 1)
              ELSE A1, LAMBDA A2 :
         ListLoop([A2 EXCEPT ![child].tag = "done"], element, processed_element,
                  NextMatch(A, element, child, {"item"})))))

\* core.handle_lists
handle_lists(A, element) ==
    Bind(ListLoop(NewElement(A, A[element].tag), element, Len(A) + 1,
                  FirstMatch(A, element, {"item"})), LAMBDA B :
         IF B[Len(A) + 1].kids # <<>> /\ text_chars_test(IterText(B, Len(A) + 1))
         THEN Ret(B, Len(A) + 1)
         ELSE Ret(B, None))

RECURSIVE QuoteLoop(_, _, _, _)
\* handle_quotes, the loop 'for child in element.iter()'
QuoteLoop(A, element, processed_element, child) ==
    IF child = None THEN A
    ELSE LET nxt == NextMatch(A, element, child, {})
             processed_child == process_node(A, child)
             B == IF processed_child # None
                  THEN SubElementWith(A, processed_element, A[child].tag,
                                      A[processed_child].text, A[processed_child].tail)
                  ELSE A
         IN QuoteLoop([B EXCEPT ![child].tag = "done"], element, processed_element, nxt)

\* core.handle_quotes
handle_quotes(A, element) ==
    Bind(QuoteLoop(NewElement(A, A[element].tag), element, Len(A) + 1, element), LAMBDA B :
         IF B[Len(A) + 1].kids # <<>>
         THEN Ret(StripTags(B, Len(A) + 1, {"quote"}), Len(A) + 1)
         ELSE Ret(B, None))

\* core.handle_other_elements
handle_other_elements(A, element, potential_tags) ==
    IF A[element].tag \notin potential_tags THEN Ret(A, None)
    ELSE IF A[element].tag = "div"
    THEN LET h == handle_textnode(A, element, FALSE)
         IN IF h.r # None
            THEN Ret([ClearAttrib(h.A, h.r) EXCEPT ![h.r].tag = IF @ = "div" THEN "p" ELSE @],
                     h.r)
            ELSE Ret(h.A, None)
    ELSE Ret(A, None)


RECURSIVE HiLoop(_, _, _)
\* handle_paragraphs, the loop 'for item in child' of a hi element
HiLoop(A, child, item) ==
    IF item = None THEN A
    ELSE LET nxt == NextSibling(A, item)
         IN HiLoop(StripTags(A, child, {A[item].tag}), child, nxt)

\* handle_paragraphs, the body of the loop for a child that gave a result and
\* is no nested paragraph: a new sub-element is appended, the child consumed
ParAppend(A, processed_element, child) ==
    Bind(IF A[child].tag = "hi" /\ A[child].kids # <<>>
         THEN HiLoop(NewElement(A, A[child].tag), child, A[child].kids[1])
         ELSE NewElement(A, A[child].tag), LAMBDA A2 :
         [AppendChild(IF A2[processed_element].kids # <<>>
                      THEN [A2 EXCEPT ![Len(A) + 1].tail = A2[child].text \o A2[child].tail]
                      ELSE [A2 EXCEPT ![Len(A) + 1].text = A2[child].text,
                                      ![Len(A) + 1].tail = A2[child].tail],
                      processed_element, Len(A) + 1)
            EXCEPT ![child].tag = "done"])

\* handle_paragraphs, the body for a nested p: its text joins the running text
ParNested(A, processed_element, child) ==
    [A EXCEPT ![processed_element].text = @ \o A[child].text]

RECURSIVE ParLoop(_, _, _, _, _)
\* handle_paragraphs, the loop 'for child in element.iter()'
ParLoop(A, element, processed_element, child, potential_tags) ==
    IF child = None THEN A
    ELSE IF A[child].tag \notin potential_tags
    THEN ParLoop(A, element, processed_element, NextMatch(A, element, child, {}),
                 potential_tags)
    ELSE Bind(handle_textnode(A, child, FALSE), LAMBDA h :
              ParLoop(IF h.r = None THEN h.A
                      ELSE IF h.A[child].tag = "p" THEN ParNested(h.A, processed_element, child)
                      ELSE ParAppend(h.A, processed_element, child),
                      element, processed_element, NextMatch(A, element, child, {}),
                      potential_tags))

\* core.handle_paragraphs
handle_paragraphs(A, element, potential_tags) ==
    IF A[element].kids = <<>>
    THEN Ret(ClearAttrib(A, element), process_node(ClearAttrib(A, element), element))
    ELSE Bind(ParLoop(NewElement(ClearAttrib(A, element), A[element].tag), element,
                      Len(A) + 1, element, potential_tags), LAMBDA B :
         LET processed_element == Len(A) + 1
             ks == B[processed_element].kids
         IN IF ks # <<>> \/ B[processed_element].text # <<>>
            THEN IF ks # <<>> /\ B[ks[Len(ks)]].tag = "lb" /\ B[ks[Len(ks)]].tail = <<>>
                 THEN Ret(Remove(B, ks[Len(ks)]), processed_element)
                 ELSE Ret(B, processed_element)
            ELSE Ret(B, None))

\* handle_table, the role of a new cell: none at all
CellRoleNone(tag) == ""
\* handle_table, 'if subelement.tag == 'th': newsub.set('role', 'head')'
CellRole(tag) == IF tag = "th" THEN "head" ELSE ""

RECURSIVE TableLoop(_, _, _, _, _, _)
\* handle_table, the loop 'for subelement in table_elem.iter()'; the result
\* holds the heap and the row under construction
TableLoop(A, table_elem, newtable, newrow, i, subelement) ==
    IF subelement = None THEN Ret(A, newrow)
    ELSE LET nxt == NextMatch(A, table_elem, subelement, {})
         IN IF A[subelement].tag = "tr"
            THEN IF A[newrow].kids # <<>>
                 THEN TableLoop(NewElement(AppendChild(A, newtable, newrow), "row"),
                                table_elem, newtable, Len(A) + 1, i + 1, nxt)
                 ELSE TableLoop(A, table_elem, newtable, newrow, i + 1, nxt)
            ELSE IF A[subelement].tag \in {"td", "th"}
            THEN LET processed_cell == process_node(A, subelement)
                 IN IF processed_cell = None \/ A[subelement].text = <<>>
                    THEN TableLoop(A, table_elem, newtable, newrow, i + 1, nxt)
                    ELSE TableLoop([SubElementWith(A, newrow, "cell", A[processed_cell].text, <<>>)
                                      EXCEPT ![Len(A) + 1].role = CellRole(A[subelement].tag)],
                                   table_elem, newtable, newrow, i + 1, nxt)
            ELSE IF A[subelement].tag = "table" /\ i + 1 > 1
            THEN Ret(A, newrow)
            ELSE TableLoop(A, table_elem, newtable, newrow, i + 1, nxt)

\* core.handle_table
handle_table(A, table_elem) ==
    Bind(TableLoop(StripTags(NewElement(NewElement(A, "table"), "row"), table_elem,
                             {"thead", "tbody", "tfoot"}),
                   table_elem, Len(A) + 1, Len(A) + 2, 0, table_elem), LAMBDA l :
    Bind(IF l.A[l.r].kids # <<>> THEN AppendChild(l.A, Len(A) + 1, l.r) ELSE l.A, LAMBDA B :
         IF B[Len(A) + 1].kids # <<>> THEN Ret(B, Len(A) + 1) ELSE Ret(B, None)))

\* core.handle_textelem
handle_textelem(A, element, potential_tags) ==
    CASE A[element].tag = "list" -> handle_lists(A, element)
      [] A[element].tag = "quote" -> handle_quotes(A, element)
      [] A[element].tag = "head" -> handle_titles(A, element)
      [] A[element].tag = "p" -> handle_paragraphs(A, element, potential_tags)
      [] A[element].tag = "lb" ->
            IF text_chars_test(A[element].tail) /\ process_node(A, element) # None
            THEN Ret([NewElement(A, "p") EXCEPT ![Len(A) + 1].text = A[element].tail],
                     Len(A) + 1)
            ELSE Ret(A, None)
      [] A[element].tag = "hi" -> handle_formatting(A, element)
      [] A[element].tag = "table" /\ "table" \in potential_tags -> handle_table(A, element)
      [] OTHER -> handle_other_elements(A, element, potential_tags)

RECURSIVE WildLoop(_, _, _, _)
\* recover_wild_paragraphs, the list comprehension over search_tree.iter(...);
\* acc collects the results that are not None
WildLoop(A, tree, element, acc) ==
    IF element = None THEN Ret(A, acc)
    ELSE Bind(handle_paragraphs(A, element, TAG_CATALOG), LAMBDA h :
              WildLoop(h.A, tree,
                       NextMatch(A, tree, element, {"blockquote", "code", "p", "pre", "q", "quote"}),
                       IF h.r # None THEN Append(acc, h.r) ELSE acc))

\* core.recover_wild_paragraphs
recover_wild_paragraphs(A, tree, result_body) ==
    Bind(StripTags(discard_unwanted(A, tree), tree, {"a", "link", "span"}), LAMBDA A0 :
    Bind(WildLoop(A0, tree,
                  FirstMatch(A0, tree, {"blockquote", "code", "p", "pre", "q", "quote"}),
                  <<>>), LAMBDA l :
         Extend(l.A, result_body, l.r, 1)))

(***************************************************************************)
(* extract_content and extract_comments (core.py 279-392).                 *)
(***************************************************************************)

RECURSIVE DensityLoop(_, _, _, _)
\* extract_content, 'for elem in subtree.iter(tag): if link_density_test(elem)
\* is True: elem.getparent().remove(elem)'
DensityLoop(A, subtree, elem, tag) ==
    IF elem = None THEN A
    ELSE LET nxt == NextMatch(A, subtree, elem, {tag})
         IN DensityLoop(IF link_density_test(A, elem) THEN Remove(A, elem) ELSE A,
                        subtree, nxt, tag)

RECURSIVE Root(_, _)
Root(A, n) == IF Parent(A, n) = None THEN n ELSE Root(A, Parent(A, n))

\* element.xpath('//p//text()'): the text found inside the p elements of the
\* whole document the element belongs to
PText(A, element) ==
    {n \in Nodes(A, Root(A, element)) : A[n].tag = "p" /\ IterText(A, n) # <<>>}

RECURSIVE TextElemLoop(_, _, _, _, _)
\* extract_content, the comprehension [handle_textelem(e, ...) for e in
\* subtree.xpath('.//*')] with the None results filtered out
TextElemLoop(A, es, i, potential_tags, acc) ==
    IF i > Len(es) THEN Ret(A, acc)
    ELSE Bind(handle_textelem(A, es[i], potential_tags), LAMBDA h :
              TextElemLoop(h.A, es, i + 1, potential_tags,
                           IF h.r # None THEN Append(acc, h.r) ELSE acc))

RECURSIVE TrailingTitles(_, _)
\* extract_content, 'while result_body[-1].tag == 'head' and
\* result_body[-1].tail is None: remove it'
TrailingTitles(A, result_body) ==
    LET ks == A[result_body].kids
    IN IF ks # <<>> /\ A[ks[Len(ks)]].tag = "head" /\ A[ks[Len(ks)]].tail = <<>>
       THEN TrailingTitles(Remove(A, ks[Len(ks)]), result_body)
       ELSE A

\* extract_content, 'potential_tags = set(TAG_CATALOG)', 'potential_tags.add('table')'
\* and 'if not subtree.xpath('//p//text()'): potential_tags.add('div')'
PotentialTags(A, subtree, include_tables) ==
    TAG_CATALOG \cup (IF include_tables THEN {"table"} ELSE {})
                \cup (IF PText(A, subtree) = {} THEN {"div"} ELSE {})

\* extract_content, the body of the loop for a candidate that matched: the
\* heap it leaves, the heap as it was when the potential tags were defined,
\* whether the candidate was skipped as empty, and the potential tags
BodyCandidate(A, subtree, result_body, include_tables) ==
    Bind(discard_unwanted(A, subtree), LAMBDA A1 :
    Bind(DensityLoop(A1, subtree, FirstMatch(A1, subtree, {"list"}), "list"), LAMBDA A2 :
    Bind(DensityLoop(A2, subtree, FirstMatch(A2, subtree, {"div"}), "div"), LAMBDA A3 :
    Bind(IF include_tables
         THEN DensityLoop(A3, subtree, FirstMatch(A3, subtree, {"table"}), "table")
         ELSE A3, LAMBDA A4 :
         IF A4[subtree].kids = <<>>
         THEN [A |-> A4, seen |-> A4, skipped |-> TRUE, potential_tags |-> {}]
         ELSE Bind(PotentialTags(A4, subtree, include_tables), LAMBDA potential_tags :
              Bind(StripTags(A4, subtree, {"link", "span"}), LAMBDA A5 :
              Bind(TextElemLoop(A5, Descendants(A5, subtree), 1, potential_tags, <<>>),
                   LAMBDA l :
                   [A |-> TrailingTitles(Extend(l.A, result_body, l.r, 1), result_body),
                    seen |-> A4, skipped |-> FALSE,
                    potential_tags |-> potential_tags])))))))

\* what the loop over BODY_XPATH did with one candidate
Tried(i, subtree, c, result_body) ==
    [expr |-> i, subtree |-> subtree, seen |-> c.seen, skipped |-> c.skipped,
     potential_tags |-> c.potential_tags, found |-> c.A[result_body].kids # <<>>]

\* a loop that stops at the first candidate that matched, whatever it left
StopAtCandidateAlways(c, result_body) == TRUE
\* extract_content, 'if len(result_body) > 0: sure_thing = True; break'
StopAtCandidate(c, result_body) == c.A[result_body].kids # <<>>

RECURSIVE BodyLoop(_, _, _, _, _, _)
\* extract_content, 'for expr in BODY_XPATH'; the result holds the heap,
\* sure_thing and the candidates that matched, in the order they were tried
BodyLoop(A, tree, result_body, include_tables, i, log) ==
    IF i > Len(BODY_XPATH) THEN [A |-> A, r |-> FALSE, log |-> log]
    ELSE IF XPathMatch(A, tree, BODY_XPATH[i]) = <<>>
    THEN BodyLoop(A, tree, result_body, include_tables, i + 1, log)
    ELSE Bind(XPathMatch(A, tree, BODY_XPATH[i])[1], LAMBDA subtree :
         Bind(BodyCandidate(A, subtree, result_body, include_tables), LAMBDA c :
              IF StopAtCandidate(c, result_body)
              THEN [A |-> c.A, r |-> TRUE,
                    log |-> Append(log, Tried(i, subtree, c, result_body))]
              ELSE BodyLoop(c.A, tree, result_body, include_tables, i + 1,
                            Append(log, Tried(i, subtree, c, result_body)))))

\* core.extract_content; result_body is Len(A) + 1
extract_content(A, tree, include_tables, min_size) ==
    Bind(BodyLoop(NewElement(A, "body"), tree, Len(A) + 1, include_tables, 1, <<>>),
         LAMBDA l :
    Bind(l.A[Len(A) + 1].kids = <<>> \/ Len(IterText(l.A, Len(A) + 1)) < min_size,
         LAMBDA recover :
    Bind(IF recover THEN recover_wild_paragraphs(l.A, tree, Len(A) + 1) ELSE l.A, LAMBDA B :
         [A |-> StripTags(StripElements(B, Len(A) + 1, {"done"}), Len(A) + 1, {"div"}),
          result_body |-> Len(A) + 1, temp_text |-> IterText(B, Len(A) + 1),
          len_text |-> Len(IterText(B, Len(A) + 1)), sure_thing |-> l.r,
          recovered |-> recover, tried |-> l.log])))

\* core.process_comments_node
process_comments_node(A, elem, potential_tags) ==
    IF A[elem].tag \in potential_tags
    THEN LET h == handle_textnode(A, elem, TRUE)
         IN IF h.r # None THEN Ret(ClearAttrib(h.A, h.r), h.r) ELSE h
    ELSE Ret(A, None)

RECURSIVE CommentsNodeLoop(_, _, _, _)
\* extract_comments, the comprehension over subtree.xpath('.//*')
CommentsNodeLoop(A, es, i, acc) ==
    IF i > Len(es) THEN Ret(A, acc)
    ELSE Bind(process_comments_node(A, es[i], TAG_CATALOG), LAMBDA h :
              CommentsNodeLoop(h.A, es, i + 1, IF h.r # None THEN Append(acc, h.r) ELSE acc))

\* the matched subtree stays in the document
KeepSubtree(A, subtree) == A
\* extract_comments, 'subtree.getparent().remove(subtree)'
DetachSubtree(A, subtree) == Remove(A, subtree)

RECURSIVE CommentsLoop(_, _, _, _)
\* extract_comments, 'for expr in COMMENTS_XPATH'; the result holds the heap
\* and the subtree that was removed (None when none was)
CommentsLoop(A, tree, comments_body, i) ==
    IF i > Len(COMMENTS_XPATH) THEN Ret(A, None)
    ELSE IF XPathMatch(A, tree, COMMENTS_XPATH[i]) = <<>>
    THEN CommentsLoop(A, tree, comments_body, i + 1)
    ELSE Bind(XPathMatch(A, tree, COMMENTS_XPATH[i])[1], LAMBDA subtree :
         Bind(StripTags(discard_unwanted_comments(A, subtree), subtree,
                        {"a", "link", "span"}), LAMBDA A1 :
         Bind(CommentsNodeLoop(A1, Descendants(A1, subtree), 1, <<>>), LAMBDA l :
         Bind(Extend(l.A, comments_body, l.r, 1), LAMBDA A2 :
              IF A2[comments_body].kids # <<>>
              THEN Ret(DetachSubtree(A2, subtree), subtree)
              ELSE CommentsLoop(A2, tree, comments_body, i + 1)))))

\* core.extract_comments; comments_body is Len(A) + 1
extract_comments(A, tree) ==
    Bind(CommentsLoop(NewElement(A, "body"), tree, Len(A) + 1, 1), LAMBDA l :
         [A |-> l.A, comments_body |-> Len(A) + 1,
          temp_comments |-> IterText(l.A, Len(A) + 1),
          len_comments |-> Len(IterText(l.A, Len(A) + 1)), removed |-> l.r])

(***************************************************************************)
(* Source documents.  The root is node 1 (html); node i > 1 hangs below an *)
(* earlier node, and its text and tail, when present, are the tokens 2i    *)
(* and 2i + 1, so that every token names the place it comes from.          *)
(***************************************************************************)
ParentMaps(n) == {f \in [2..n + 1 -> 1..n] : \A i \in 2..n + 1 : f[i] < i}

KidsOf(par, i, n) == SelectSeq([k \in 1..n - 1 |-> k + 1], LAMBDA j : par[j] = i)

MkDoc(n, par, ch) ==
    [i \in 1..n + 1 |->
        IF i = 1 THEN [Element("html") EXCEPT !.kids = KidsOf(par, 1, n + 1)]
        ELSE [tag |-> ch[i].tag,
              text |-> IF ch[i].text THEN <<2 * i>> ELSE <<>>,
              tail |-> IF ch[i].tail THEN <<2 * i + 1>> ELSE <<>>,
              kids |-> KidsOf(par, i, n + 1),
              match |-> ch[i].match, role |-> ""]]

Docs(choices, n) ==
    {MkDoc(n, par, ch) : par \in ParentMaps(n), ch \in [2..n + 1 -> choices]}

Choice(tag, match, texts, tails) ==
    [tag : {tag}, match : {match}, text : texts, tail : tails]

\* the elements of the documents of SpecExtract: a comments section, a main
\* content container, paragraphs, inline formatting, quotes and anchors
ExtractChoices ==
    Choice("div", "comments1", {TRUE}, {FALSE})
    \cup Choice("div", "comments2", {TRUE}, {FALSE})
    \cup Choice("div", "body1", {FALSE}, {FALSE})
    \cup Choice("div", "body2", {FALSE}, {FALSE})
    \cup Choice("p", "none", BOOLEAN, {FALSE})
    \cup Choice("p", "none", {TRUE}, {TRUE})
    \cup Choice("hi", "none", {TRUE}, {FALSE})
    \cup Choice("quote", "none", {TRUE}, {FALSE})
    \cup Choice("a", "none", {TRUE}, {TRUE})

(***************************************************************************)
(* bare_extraction, lines 581-588: comments first, then the main content.  *)
(*   A      the heap; tree = 1 is cleaned_tree                             *)
(*   A0     the heap as it was given (kept for the claims)                 *)
(*   AC     the heap as extract_content received it                        *)
(*   tried  the candidates of extract_content that matched, in order      *)
(***************************************************************************)
ExtInit ==
    /\ \E n \in 1..MaxNodes, ic \in BOOLEAN, ms \in {0, MaxMinSize} :
          \E par \in ParentMaps(n), ch \in [2..n + 1 -> ExtractChoices] :
             ext = [pc |-> "comments", A |-> MkDoc(n, par, ch), A0 |-> MkDoc(n, par, ch),
                    tree |-> 1,
                    include_comments |-> ic, include_tables |-> FALSE, min_size |-> ms,
                    commentsbody |-> None, removed |-> None, AC |-> MkDoc(n, par, ch),
                    postbody |-> None, temp_text |-> <<>>, len_text |-> 0,
                    sure_thing |-> FALSE, recovered |-> FALSE, tried |-> <<>>]
    /\ arb = Idle /\ run = Idle /\ txt = Idle /\ san = Idle
    /\ tab = Idle /\ out = Idle /\ tei = Idle /\ cmp = Idle /\ cap = Idle
    /\ chk = Idle /\ bas = Idle /\ scr = Idle

\* if include_comments is True: commentsbody, ... = extract_comments(cleaned_tree, ...)
ExtractComments ==
    /\ ext.pc = "comments" /\ ext.include_comments
    /\ LET c == extract_comments(ext.A, ext.tree)
       IN ext' = [ext EXCEPT !.pc = "content", !.A = c.A, !.AC = c.A,
                             !.commentsbody = c.comments_body, !.removed = c.removed]
    /\ UNCHANGED notExt

\* else: commentsbody, temp_comments, len_comments = None, '', 0
SkipComments ==
    /\ ext.pc = "comments" /\ ~ext.include_comments
    /\ ext' = [ext EXCEPT !.pc = "content"]
    /\ UNCHANGED notExt

\* postbody, temp_text, len_text, sure_thing = extract_content(cleaned_tree, ...)
ExtractContent ==
    /\ ext.pc = "content"
    /\ LET c == extract_content(ext.A, ext.tree, ext.include_tables, ext.min_size)
       IN ext' = [ext EXCEPT !.pc = "done", !.A = c.A, !.postbody = c.result_body,
                             !.temp_text = c.temp_text, !.len_text = c.len_text,
                             !.sure_thing = c.sure_thing, !.recovered = c.recovered,
                             !.tried = c.tried]
    /\ UNCHANGED notExt

ExtNext ==
    \/ ExtractComments
    \/ SkipComments
    \/ ExtractContent

SpecExtract == ExtInit /\ [][ExtNext]_vars


(***************************************************************************)
(* xml.py: the txt serializer.  The output is the list of strings that     *)
(* xmltotxt joins: an entry is a delimiter or a text; a text is a sequence *)
(* of tokens in which SPACE stands for the space of a ' '.join.            *)
(***************************************************************************)
SPACE == 0

Delim(d) == [delim |-> d, text |-> <<>>]
TextEntry(t) == [delim |-> "", text |-> t]

\* ' '.join([a, b])
JoinSpace(a, b) == a \o <<SPACE>> \o b

\* xml.replace_element_text
replace_element_text(A, element) ==
    IF A[element].text # <<>> /\ A[element].tail # <<>>
    THEN JoinSpace(A[element].text, A[element].tail)
    ELSE IF A[element].text # <<>> THEN A[element].text
    ELSE A[element].tail

\* xml.merge_with_parent
merge_with_parent(A, element) ==
    LET parent == Parent(A, element) IN
    IF parent = None THEN A
    ELSE LET full_text == replace_element_text(A, element)
             previous == Previous(A, element)
             A1 == IF previous # None
                   THEN [A EXCEPT ![previous].tail =
                            IF @ # <<>> THEN JoinSpace(@, full_text) ELSE full_text]
                   ELSE [A EXCEPT ![parent].text =
                            IF @ # <<>> THEN JoinSpace(@, full_text) ELSE full_text]
         IN Remove(A1, element)

RECURSIVE MergeLoop(_, _, _)
\* xmltotxt, 'for element in xmloutput.xpath('//hi|//link')'
MergeLoop(A, es, i) ==
    IF i > Len(es) THEN A ELSE MergeLoop(merge_with_parent(A, es[i]), es, i + 1)

\* xmltotxt, the body of 'for element in xmloutput.iter()': the strings that
\* one element adds to returnlist
TxtEntries(A, element) ==
    IF A[element].text = <<>> /\ A[element].tail = <<>>
    THEN IF A[element].tag \in {"row", "table"} THEN <<Delim("\n")>> ELSE <<>>
    ELSE LET textelement == replace_element_text(A, element) IN
         IF A[element].tag \in {"code", "fw", "head", "lb", "list", "p", "quote", "row", "table"}
         THEN <<Delim("\n"), TextEntry(textelement), Delim("\n")>>
         ELSE IF A[element].tag = "item"
         THEN <<Delim("\n- "), TextEntry(textelement), Delim("\n")>>
         ELSE IF A[element].tag = "cell"
         THEN <<Delim("|"), TextEntry(textelement), Delim("|")>>
         ELSE IF A[element].tag = "comments"
         THEN <<Delim("\n\n")>>
         ELSE <<TextEntry(textelement), Delim(" ")>>

RECURSIVE TxtLoop(_, _, _)
TxtLoop(A, es, i) ==
    IF i > Len(es) THEN <<>> ELSE TxtEntries(A, es[i]) \o TxtLoop(A, es, i + 1)

\* utils.sanitize on the joined list: empty strings vanish in the join and
\* a line without content is dropped
sanitize(returnlist) ==
    LET s == SelectSeq(returnlist, LAMBDA e : e.delim # "" \/ e.text # <<>>)
        idx == SelectSeq([i \in 1..Len(s) |-> i],
                         LAMBDA i : ~(i > 1 /\ s[i].delim = "\n" /\ s[i - 1].delim = "\n"))
    IN [j \in 1..Len(idx) |-> s[idx[j]]]

\* xml.xmltotxt: the heap it leaves and the text it returns
xmltotxt(A, xmloutput) ==
    LET inline == SelectSeq(Pre(A, Root(A, xmloutput)), LAMBDA n : A[n].tag \in {"hi", "link"})
        A1 == MergeLoop(A, inline, 1)
    IN Ret(A1, sanitize(TxtLoop(A1, Pre(A1, xmloutput), 1)))

\* number of elements of a content tree, its root not counted
MaxContentNodes == 3

\* the elements of the content trees of SpecTxt
TxtChoices ==
    Choice("p", "none", BOOLEAN, BOOLEAN)
    \cup Choice("hi", "none", {TRUE}, BOOLEAN)
    \cup Choice("lb", "none", {FALSE}, BOOLEAN)
    \cup Choice("item", "none", {TRUE}, {FALSE})
    \cup Choice("cell", "none", {TRUE}, {FALSE})
    \cup Choice("row", "none", {FALSE}, {FALSE})

\* a content tree has a body root
ContentTrees(choices) ==
    {[d EXCEPT ![1].tag = "body"] : d \in UNION {Docs(choices, n) : n \in 1..MaxContentNodes}}

(***************************************************************************)
(* determine_returnstring, csv output: posttext = xmltotxt(postbody)       *)
(*   A0   the content tree as it was given (kept for the claims)           *)
(***************************************************************************)
TxtInit ==
    /\ \E doc \in ContentTrees(TxtChoices) :
          txt = [pc |-> "start", A |-> doc, A0 |-> doc, postbody |-> 1, posttext |-> <<>>]
    /\ arb = Idle /\ run = Idle /\ ext = Idle /\ san = Idle
    /\ tab = Idle /\ out = Idle /\ tei = Idle /\ cmp = Idle /\ cap = Idle
    /\ chk = Idle /\ bas = Idle /\ scr = Idle

XmlToTxt ==
    /\ txt.pc = "start"
    /\ LET r == xmltotxt(txt.A, txt.postbody)
       IN txt' = [txt EXCEPT !.pc = "done", !.A = r.A, !.posttext = r.r]
    /\ UNCHANGED notTxt

TxtNext == XmlToTxt

SpecTxt == TxtInit /\ [][TxtNext]_vars


(***************************************************************************)
(* determine_returnstring, txt output:                                     *)
(*     returnstring = xmltotxt(build_xml_output(postbody, commentsbody))   *)
(***************************************************************************)

\* xml.clean_attributes
clean_attributes(A, tree) ==
    [n \in DOMAIN A |->
        IF n \in Nodes(A, tree) /\ A[n].tag \notin {"del", "hi"}
        THEN [A[n] EXCEPT !.match = "none", !.role = ""]
        ELSE A[n]]

\* build_xml_output, 'commentsbody.tag = 'comments'; output.append(commentsbody)'
AppendComments(A, output, commentsbody) ==
    AppendChild([A EXCEPT ![commentsbody].tag = "comments"], output, commentsbody)

\* xml.build_xml_output; output is Len(A) + 1
build_xml_output(A, postbody, commentsbody) ==
    LET output == Len(A) + 1
        A1 == AppendChild([NewElement(A, "doc") EXCEPT ![postbody].tag = "main"],
                          output, postbody)
        A2 == IF commentsbody # None THEN AppendComments(A1, output, commentsbody) ELSE A1
    IN Ret(clean_attributes(A2, output), output)

\* the trees that extraction hands over: the content tree (node 1) and, when
\* comments were asked for, the comments tree (node 2), both with a body root
\* that has neither text nor tail
OutputTrees(n, par, ch, with_comments) ==
    LET d == [MkDoc(n, par, ch) EXCEPT ![1].tag = "body"]
    IN IF with_comments
       THEN [Remove(d, 2) EXCEPT ![2].tag = "body", ![2].text = <<>>, ![2].tail = <<>>]
       ELSE d

OutInit ==
    /\ \E n \in 1..MaxContentNodes, with_comments \in BOOLEAN :
          \E par \in ParentMaps(n), ch \in [2..n + 1 -> TxtChoices] :
             /\ with_comments => par[2] = 1
             /\ out = [pc |-> "start", A |-> OutputTrees(n, par, ch, with_comments),
                       postbody |-> 1,
                       commentsbody |-> IF with_comments THEN 2 ELSE None,
                       output |-> None, returnstring |-> <<>>]
    /\ arb = Idle /\ run = Idle /\ ext = Idle /\ txt = Idle
    /\ san = Idle /\ tab = Idle /\ tei = Idle /\ cmp = Idle /\ cap = Idle
    /\ chk = Idle /\ bas = Idle /\ scr = Idle

\* else:  # txt
\*     returnstring = xmltotxt(build_xml_output(postbody, commentsbody))
TxtOutput ==
    /\ out.pc = "start"
    /\ LET b == build_xml_output(out.A, out.postbody, out.commentsbody)
           r == xmltotxt(b.A, b.r)
       IN out' = [out EXCEPT !.pc = "done", !.A = r.A, !.output = b.r, !.returnstring = r.r]
    /\ UNCHANGED notOut

OutNext == TxtOutput

SpecOutput == OutInit /\ [][OutNext]_vars


(***************************************************************************)
(* bare_extraction, the tree size sanity check (core.py 603-610) on a      *)
(* content tree.  len(postbody) is the number of children of the body.     *)
(*   A0   the content tree as it was given (kept for the claims)           *)
(***************************************************************************)

\* len(element): the number of its children
ElemLen(A, element) == Len(A[element].kids)

\* the elements of the content trees of SpecTreeSize
CapChoices ==
    Choice("p", "none", {TRUE}, {FALSE})
    \cup Choice("hi", "none", {TRUE}, BOOLEAN)
    \cup Choice("lb", "none", {FALSE}, {TRUE})

CapInit ==
    /\ \E doc \in ContentTrees(CapChoices), m \in 0..MaxTreeSize :
          cap = [pc |-> "tree_size", A |-> doc, A0 |-> doc, postbody |-> 1,
                 max_tree_size |-> m,      \* 0 stands for max_tree_size=None
                 stripped |-> 0, outcome |-> "pending"]
    /\ arb = Idle /\ run = Idle /\ ext = Idle /\ txt = Idle /\ san = Idle
    /\ tab = Idle /\ out = Idle /\ tei = Idle /\ cmp = Idle
    /\ chk = Idle /\ bas = Idle /\ scr = Idle

\* if max_tree_size is not None: if len(postbody) > max_tree_size:
\*     etree.strip_tags(postbody, 'hi')
\*     if len(postbody) > max_tree_size: raise ValueError
TreeSizeSanityCheck ==
    /\ cap.pc = "tree_size"
    /\ cap' =
         IF cap.max_tree_size # 0 /\ ElemLen(cap.A, cap.postbody) > cap.max_tree_size
         THEN LET B == StripTags(cap.A, cap.postbody, {"hi"})
              IN [cap EXCEPT !.pc = "done", !.A = B, !.stripped = @ + 1,
                             !.outcome = IF ElemLen(B, cap.postbody) > cap.max_tree_size
                                         THEN "discarded" ELSE "kept"]
         ELSE [cap EXCEPT !.pc = "done", !.outcome = "kept"]
    /\ UNCHANGED notCap

CapNext == TreeSizeSanityCheck

SpecTreeSize == CapInit /\ [][CapNext]_vars


(***************************************************************************)
(* handle_table on its own: handle_textelem hands it every table element   *)
(* when tables are included.                                               *)
(*   A0   the table as it was given (kept for the claims)                  *)
(***************************************************************************)
\* number of elements of a source table, the table element not counted
MaxTableNodes == 4

\* the elements of a table: rows, cells with and without text, header cells,
\* a body wrapper and a nested table
TableChoices ==
    Choice("tr", "none", {FALSE}, {FALSE})
    \cup Choice("td", "none", BOOLEAN, {FALSE})
    \cup Choice("th", "none", {TRUE}, {FALSE})
    \cup Choice("tbody", "none", {FALSE}, {FALSE})
    \cup Choice("table", "none", {FALSE}, {FALSE})

\* a source table: its root is the table element
TableTree(n, par, ch) == [MkDoc(n, par, ch) EXCEPT ![1].tag = "table"]

TabInit ==
    /\ \E n \in 1..MaxTableNodes :
          \E par \in ParentMaps(n), ch \in [2..n + 1 -> TableChoices] :
             tab = [pc |-> "start", A |-> TableTree(n, par, ch), A0 |-> TableTree(n, par, ch),
                    table_elem |-> 1, result |-> None]
    /\ arb = Idle /\ run = Idle /\ ext = Idle /\ txt = Idle
    /\ san = Idle /\ out = Idle /\ tei = Idle /\ cmp = Idle /\ cap = Idle
    /\ chk = Idle /\ bas = Idle /\ scr = Idle

\* elif element.tag == 'table' and 'table' in potential_tags:
\*     new_element = handle_table(element)
HandleTable ==
    /\ tab.pc = "start"
    /\ LET h == handle_table(tab.A, tab.table_elem)
       IN tab' = [tab EXCEPT !.pc = "done", !.A = h.A, !.result = h.r]
    /\ UNCHANGED notTab

TabNext == HandleTable

SpecTable == TabInit /\ [][TabNext]_vars


(***************************************************************************)
(* external.py: sanitize_tree, the post-processing of the output of the    *)
(* generic algorithm.                                                      *)
(***************************************************************************)

\* external.SANITIZED_XPATH: the tags removed outright
SANITIZED_TAGS ==
    {"aside", "audio", "button", "fieldset", "figure", "footer", "iframe", "img",
     "image", "input", "label", "link", "nav", "noindex", "noscript", "object",
     "option", "select", "source", "svg", "time"}

\* xml.TEI_VALID_TAGS
TEI_VALID_TAGS ==
    {"body", "cell", "code", "del", "div", "fw", "head", "hi", "item", "lb", "list",
     "p", "quote", "row", "table"}

\* settings.MANUALLY_STRIPPED: wrapper tags stripped by hand (one of them)
MANUALLY_STRIPPED == {"font"}

\* htmlprocessing.prune_html: elements without any content are removed
prune_html(A, tree) ==
    RemoveAll(A, SelectSeq(Descendants(A, tree),
                           LAMBDA n : A[n].kids = <<>> /\ A[n].text = <<>> /\ A[n].tail = <<>>), 1)

\* htmlprocessing.convert_tags: the tags of the page are renamed to the
\* internal vocabulary; formatting is kept as hi only when it is asked for
ConvertedTag(tag) ==
    IF tag = "b" THEN "hi"
    ELSE IF tag = "br" THEN "lb"
    ELSE IF tag = "h1" THEN "head"
    ELSE IF tag = "blockquote" THEN "quote"
    ELSE IF tag = "ul" THEN "list"
    ELSE IF tag = "li" THEN "item"
    ELSE tag

convert_tags(A, tree, include_formatting) ==
    LET B == IF include_formatting THEN A ELSE StripTags(A, tree, {"b"})
    IN [n \in DOMAIN B |-> [B[n] EXCEPT !.tag = ConvertedTag(@)]]

\* sanitize_tree, 'for elem in cleaned_tree.iter('td', 'th', 'tr')'
FinishTable(A) ==
    [n \in DOMAIN A |->
        IF A[n].tag = "tr" THEN [A[n] EXCEPT !.tag = "row"]
        ELSE IF A[n].tag = "td" THEN [A[n] EXCEPT !.tag = "cell"]
        ELSE IF A[n].tag = "th" THEN [A[n] EXCEPT !.tag = "cell", !.role = "head"]
        ELSE A[n]]

\* sanitize_tree, 'elem.getparent().remove(elem)'
RemoveSanitized(A, elem) == Remove(A, elem)

RECURSIVE SanitizedLoop(_, _, _)
\* sanitize_tree, 'for elem in tree.xpath(SANITIZED_XPATH)'
SanitizedLoop(A, es, i) ==
    IF i > Len(es) THEN A ELSE SanitizedLoop(RemoveSanitized(A, es[i]), es, i + 1)

\* external.sanitize_tree
sanitize_tree(A, tree, include_formatting) ==
    LET doc == Root(A, tree)
        A1 == SanitizedLoop(A, SelectSeq(Pre(A, doc), LAMBDA n : A[n].tag \in SANITIZED_TAGS), 1)
        A2 == StripTags(A1, tree, MANUALLY_STRIPPED \cup {"a", "span"})
        A3 == prune_html(A2, tree)
        A4 == FinishTable(convert_tags(A3, tree, include_formatting))
        sanitization_list == {A4[n].tag : n \in Nodes(A4, tree)} \ TEI_VALID_TAGS
        A5 == StripTags(A4, tree, sanitization_list)
        text == IterText(A5, tree)
    IN [A |-> A5, cleaned_tree |-> tree, text |-> text, len_text |-> Len(text)]

\* the elements of the trees of SpecSanitize: paragraphs, images and figures
\* (removed outright), wrappers and foreign containers (stripped), formatting,
\* line breaks and table cells (converted)
SanitizeChoices ==
    Choice("p", "none", {TRUE}, BOOLEAN)
    \cup Choice("img", "none", {FALSE}, BOOLEAN)
    \cup Choice("figure", "none", {TRUE}, {TRUE})
    \cup Choice("span", "none", {TRUE}, {TRUE})
    \cup Choice("article", "none", {TRUE}, {FALSE})
    \cup Choice("b", "none", {TRUE}, {TRUE})
    \cup Choice("br", "none", {FALSE}, {TRUE})
    \cup Choice("tr", "none", {FALSE}, {FALSE})
    \cup Choice("th", "none", {TRUE}, {FALSE})

(***************************************************************************)
(* compare_extraction: body, text, len_text = sanitize_tree(body, ...)     *)
(*   A0   the tree as it was given (kept for the claims)                   *)
(***************************************************************************)
SanInit ==
    /\ \E doc \in ContentTrees(SanitizeChoices), f \in BOOLEAN :
          san = [pc |-> "start", A |-> doc, A0 |-> doc, body |-> 1,
                 include_formatting |-> f, text |-> <<>>, len_text |-> 0]
    /\ arb = Idle /\ run = Idle /\ ext = Idle /\ txt = Idle
    /\ tab = Idle /\ out = Idle /\ tei = Idle /\ cmp = Idle /\ cap = Idle
    /\ chk = Idle /\ bas = Idle /\ scr = Idle

SanitizeTree ==
    /\ san.pc = "start"
    /\ LET r == sanitize_tree(san.A, san.body, san.include_formatting)
       IN san' = [san EXCEPT !.pc = "done", !.A = r.A, !.body = r.cleaned_tree,
                             !.text = r.text, !.len_text = r.len_text]
    /\ UNCHANGED notSan

SanNext == SanitizeTree

SpecSanitize == SanInit /\ [][SanNext]_vars


(***************************************************************************)
(* compare_extraction as a whole (core.py 395-448) with try_readability,   *)
(* try_justext and justext_rescue (external.py 55-114).  A tree is named   *)
(* by the algorithm that made it and a text by its origin and its length;  *)
(* the libraries answer nondeterministically: a result, or an exception of *)
(* some class.                                                             *)
(*   body, text, len_text   the chosen result                              *)
(*   dirty      the trees for which body.xpath(SANITIZED_XPATH) is true    *)
(*   given, returned   arguments and result of justext_rescue              *)
(***************************************************************************)
\* largest text length of SpecCompare
MaxCmpLen == 3

CmpLens == 0..MaxCmpLen

\* what the call of a library ends with: a result or an exception class
ReadabilityOutcomes == {"ok", "SerialisationError", "Unparseable", "OtherException"}
JustextOutcomes == {"ok", "ValueError", "OtherException"}

\* try_readability: except (etree.SerialisationError, Unparseable):
\*     return etree.Element('div')
ReadabilityCaught(outcome) == outcome \in {"SerialisationError", "Unparseable"}

\* try_justext: except ValueError as err: result_body = None
JustextCaught(outcome) == outcome = "ValueError"

\* external.justext_rescue, once try_justext has returned: temppost_algo is
\* "none" (None) after a caught failure, else a body of len_algo characters
justext_rescue(temppost_algo, len_algo, postbody, len_text, text) ==
    IF temppost_algo # "none" /\ len_algo > len_text
    THEN [body |-> "justext", text |-> "justext", len_text |-> len_algo, result |-> TRUE]
    ELSE [body |-> postbody, text |-> text, len_text |-> len_text, result |-> FALSE]

CmpInit ==
    /\ \E lt \in CmpLens, pt \in BOOLEAN, ms \in 1..MaxCmpLen, dirty \in SUBSET {"custom", "readability"} :
          cmp = [pc |-> "readability", body |-> "custom", text |-> "custom", len_text |-> lt,
                 p_text |-> pt, min_size |-> ms, dirty |-> dirty,
                 readability |-> "none", len_algo |-> 0, algo_flag |-> FALSE,
                 step2 |-> "none", justext |-> "none", len_jt |-> 0, jt_result |-> FALSE,
                 chosen |-> [body |-> "custom", text |-> "custom", len_text |-> lt],
                 given |-> [body |-> "none", text |-> "none", len_text |-> 0],
                 returned |-> [body |-> "none", text |-> "none", len_text |-> 0],
                 sanitized |-> FALSE]
    /\ arb = Idle /\ run = Idle /\ ext = Idle /\ txt = Idle /\ san = Idle
    /\ tab = Idle /\ out = Idle /\ tei = Idle /\ cap = Idle
    /\ chk = Idle /\ bas = Idle /\ scr = Idle

\* temppost_algo = try_readability(backup_tree, url); algo_text = ...; len_algo = len(algo_text)
TryReadability ==
    /\ cmp.pc = "readability"
    /\ \E outcome \in ReadabilityOutcomes, la \in CmpLens :
          /\ outcome # "ok" => la = 0
          /\ cmp' = IF outcome = "ok" \/ ReadabilityCaught(outcome)
                    THEN [cmp EXCEPT !.pc = "step1", !.readability = outcome, !.len_algo = la]
                    ELSE [cmp EXCEPT !.pc = "raised", !.readability = outcome]
    /\ UNCHANGED notCmp

\* the if/elif chain and 'if algo_flag is True: body, text, len_text = ...'
Step1 ==
    /\ cmp.pc = "step1"
    /\ LET flag == Branch2(cmp) \/ Branch4(cmp) \/ Branch5(cmp)
           c == IF flag
                THEN [body |-> "readability", text |-> "readability", len_text |-> cmp.len_algo]
                ELSE [body |-> cmp.body, text |-> cmp.text, len_text |-> cmp.len_text]
       IN cmp' = [cmp EXCEPT !.pc = "step2", !.algo_flag = flag, !.chosen = c,
                             !.body = c.body, !.text = c.text, !.len_text = c.len_text]
    /\ UNCHANGED notCmp

\* body, text, len_text = sanitize_tree(body, include_formatting): the tree
\* loses elements, its text gets no longer
Sanitized(c, l) == [c EXCEPT !.len_text = l, !.sanitized = TRUE]

\* if body.xpath(SANITIZED_XPATH):
\*     body2, text2, len_text2, jt_result = justext_rescue(tree, url, target_language, body, 0, '')
StructuralOverride ==
    /\ cmp.pc = "step2" /\ cmp.body \in cmp.dirty
    /\ \E outcome \in JustextOutcomes, lj \in CmpLens, l \in 0..cmp.len_text :
          /\ outcome # "ok" => lj = 0
          /\ LET r == justext_rescue(IF outcome = "ok" THEN "justext" ELSE "none", lj,
                                     cmp.body, 0, "empty")
                 c == [cmp EXCEPT !.step2 = "override", !.justext = outcome, !.len_jt = lj,
                                  !.given = [body |-> cmp.body, text |-> "empty", len_text |-> 0]]
             IN cmp' = IF outcome = "ok" \/ JustextCaught(outcome)
                       THEN IF r.result
                            THEN [c EXCEPT !.pc = "done", !.jt_result = TRUE,
                                           !.returned = [body |-> r.body, text |-> r.text,
                                                         len_text |-> r.len_text],
                                           !.body = r.body, !.text = r.text,
                                           !.len_text = r.len_text]
                            ELSE [Sanitized(c, l) EXCEPT !.pc = "done",
                                           !.returned = [body |-> r.body, text |-> r.text,
                                                         len_text |-> r.len_text]]
                       ELSE [c EXCEPT !.pc = "raised"]
    /\ UNCHANGED notCmp

\* elif len_text < MIN_EXTRACTED_SIZE:
\*     body, text, len_text, jt_result = justext_rescue(..., body, len_text, text)
ShortRescue ==
    /\ cmp.pc = "step2" /\ cmp.body \notin cmp.dirty /\ cmp.len_text < cmp.min_size
    /\ \E outcome \in JustextOutcomes, lj \in CmpLens, l \in 0..cmp.len_text :
          /\ outcome # "ok" => lj = 0
          /\ LET r == justext_rescue(IF outcome = "ok" THEN "justext" ELSE "none", lj,
                                     cmp.body, cmp.len_text, cmp.text)
                 c == [cmp EXCEPT !.step2 = "short", !.justext = outcome, !.len_jt = lj,
                                  !.given = [body |-> cmp.body, text |-> cmp.text,
                                             len_text |-> cmp.len_text],
                                  !.returned = [body |-> r.body, text |-> r.text,
                                                len_text |-> r.len_text]]
             IN cmp' = IF outcome = "ok" \/ JustextCaught(outcome)
                       THEN IF r.result
                            THEN [c EXCEPT !.pc = "done", !.jt_result = TRUE, !.body = r.body,
                                           !.text = r.text, !.len_text = r.len_text]
                            ELSE [Sanitized(c, l) EXCEPT !.pc = "done"]
                       ELSE [cmp EXCEPT !.pc = "raised", !.step2 = "short", !.justext = outcome]
    /\ UNCHANGED notCmp

\* else: if algo_flag is True: body, text, len_text = sanitize_tree(...)
KeepChosen ==
    /\ cmp.pc = "step2" /\ cmp.body \notin cmp.dirty /\ cmp.len_text >= cmp.min_size
    /\ \E l \in 0..cmp.len_text :
          cmp' = IF cmp.algo_flag
                 THEN [Sanitized(cmp, l) EXCEPT !.pc = "done", !.step2 = "keep"]
                 ELSE [cmp EXCEPT !.pc = "done", !.step2 = "keep"]
    /\ UNCHANGED notCmp

CmpNext ==
    \/ TryReadability
    \/ Step1
    \/ StructuralOverride
    \/ ShortRescue
    \/ KeepChosen

SpecCompare == CmpInit /\ [][CmpNext]_vars


(***************************************************************************)
(* xml.validate_tei and the module-level TEI_RELAXNG, called from several  *)
(* threads of one process.  A thread can be suspended between any two      *)
(* statements (the interpreter switches threads between bytecodes and      *)
(* while a file is read).                                                  *)
(*   grammar   TEI_RELAXNG: None, or the number of the RelaxNG object      *)
(*   built     how many RelaxNG objects have been constructed              *)
(*   replaced  an assignment has overwritten an object that was there      *)
(*   thr       per thread: position, calls made, object used to validate   *)
(***************************************************************************)
\* number of threads that call validate_tei, and calls each of them makes
MaxThreads == 2
MaxCalls == 3

Threads == 1..MaxThreads

TeiInit ==
    /\ tei = [pc |-> "running", grammar |-> None, built |-> 0, replaced |-> FALSE,
              thr |-> [t \in Threads |-> [pc |-> "call", calls |-> 0, used |-> None]]]
    /\ arb = Idle /\ run = Idle /\ ext = Idle /\ txt = Idle /\ san = Idle
    /\ tab = Idle /\ out = Idle /\ cmp = Idle /\ cap = Idle
    /\ chk = Idle /\ bas = Idle /\ scr = Idle

\* a thread calls validate_tei(tei)
TeiCall ==
    /\ tei.pc = "running"
    /\ \E t \in Threads :
          /\ tei.thr[t].pc = "call" /\ tei.thr[t].calls < MaxCalls
          /\ tei' = [tei EXCEPT !.thr[t].pc = "test", !.thr[t].calls = @ + 1]
    /\ UNCHANGED notTei

\* if TEI_RELAXNG is None:
TeiTest ==
    /\ tei.pc = "running"
    /\ \E t \in Threads :
          /\ tei.thr[t].pc = "test"
          /\ tei' = [tei EXCEPT !.thr[t].pc = IF tei.grammar = None THEN "load" ELSE "validate"]
    /\ UNCHANGED notTei

\* with open(TEI_SCHEMA, 'rb') as schemafile: schema_data = pickle.load(schemafile)
\* relaxng_doc = etree.parse(StringIO(schema_data))
TeiLoad ==
    /\ tei.pc = "running"
    /\ \E t \in Threads :
          /\ tei.thr[t].pc = "load"
          /\ tei' = [tei EXCEPT !.thr[t].pc = "assign"]
    /\ UNCHANGED notTei

\* TEI_RELAXNG = etree.RelaxNG(relaxng_doc)
TeiAssign ==
    /\ tei.pc = "running"
    /\ \E t \in Threads :
          /\ tei.thr[t].pc = "assign"
          /\ tei' = [tei EXCEPT !.thr[t].pc = "validate", !.built = @ + 1,
                                !.grammar = tei.built + 1,
                                !.replaced = @ \/ tei.grammar # None]
    /\ UNCHANGED notTei

\* result = TEI_RELAXNG.validate(tei); return result
TeiValidate ==
    /\ tei.pc = "running"
    /\ \E t \in Threads :
          /\ tei.thr[t].pc = "validate"
          /\ tei' = [tei EXCEPT !.thr[t].pc = "call", !.thr[t].used = tei.grammar]
    /\ UNCHANGED notTei

TeiNext ==
    \/ TeiCall
    \/ TeiTest
    \/ TeiLoad
    \/ TeiAssign
    \/ TeiValidate

SpecTei == TeiInit /\ [][TeiNext]_vars


(***************************************************************************)
(* build_tei_output: output = check_tei(output, docmeta['url'])            *)
(* (xml.py 118-140).  The tree is the post div that write_teitree put      *)
(* under text/body; the body above it holds nothing else and is not        *)
(* represented.                                                            *)
(*   A0   the tree as it was given (kept for the claims)                   *)
(***************************************************************************)

\* check_tei, 'for elem in tei.iter('head'): elem.tag = 'fw''
ConvertHeads(A) ==
    [n \in DOMAIN A |-> IF A[n].tag = "head" THEN [A[n] EXCEPT !.tag = "fw"] ELSE A[n]]

RECURSIVE CheckLoop(_, _, _)
\* check_tei, 'for element in tei.xpath('//text/body//*')': the list of the
\* elements is drawn up before the first of them is merged
CheckLoop(A, es, i) ==
    IF i > Len(es) THEN A
    ELSE IF A[es[i]].tag \notin TEI_VALID_TAGS
    THEN CheckLoop(merge_with_parent(A, es[i]), es, i + 1)
    ELSE CheckLoop([A EXCEPT ![es[i]].match = "none"], es, i + 1)

\* xml.check_tei
check_tei(A, tree) ==
    Bind(ConvertHeads(A), LAMBDA A1 : CheckLoop(A1, Pre(A1, tree), 1))

\* the elements of the trees of SpecCheckTei: paragraphs, titles, formatting
\* and an element that is no TEI element
CheckChoices ==
    Choice("p", "none", BOOLEAN, BOOLEAN)
    \cup Choice("head", "none", {TRUE}, {FALSE})
    \cup Choice("hi", "none", {TRUE}, BOOLEAN)
    \cup Choice("span", "none", BOOLEAN, BOOLEAN)

ChkInit ==
    /\ \E n \in 1..MaxContentNodes :
          \E par \in ParentMaps(n), ch \in [2..n + 1 -> CheckChoices] :
             chk = [pc |-> "start", A |-> [MkDoc(n, par, ch) EXCEPT ![1].tag = "div"],
                    A0 |-> [MkDoc(n, par, ch) EXCEPT ![1].tag = "div"], tei |-> 1]
    /\ arb = Idle /\ run = Idle /\ ext = Idle /\ txt = Idle /\ san = Idle
    /\ tab = Idle /\ out = Idle /\ tei = Idle /\ cmp = Idle /\ cap = Idle
    /\ bas = Idle /\ scr = Idle

CheckTei ==
    /\ chk.pc = "start"
    /\ chk' = [chk EXCEPT !.pc = "done", !.A = check_tei(chk.A, chk.tei)]
    /\ UNCHANGED notChk

ChkNext == CheckTei

SpecCheckTei == ChkInit /\ [][ChkNext]_vars


(***************************************************************************)
(* bare_extraction: postbody, temp_text, len_text = baseline(filecontent)  *)
(* (core.py 455-492, 597).  A value carries its Python type: PyStr(s) is *)
(* a string, PyInt(n) an integer.  filecontent is described by what        *)
(* baseline reads in it:                                                   *)
(*   parsable    load_html gives a tree                                    *)
(*   script      the ld+json script: of kind "none" when there is no such  *)
(*               script, "other" when it does not hold '"article',         *)
(*               "nomatch" when the articlebody pattern does not match,    *)
(*               "match" when it does, with the text the pattern captures  *)
(*   article     whether there is an article element, and its text         *)
(*   paragraphs  the texts of the blockquote, code, p, pre, q and quote    *)
(*               elements in document order                                *)
(***************************************************************************)
PyStr(s) == [type |-> "str", val |-> s]
PyInt(n) == [type |-> "int", val |-> n]

\* the line feed of '\n'.join
NL == 1

\* largest number of paragraph-like elements of a page given to baseline
MaxParagraphs == 3

\* the texts that a script, an article or a paragraph holds
BaselineTexts == {<<>>, <<21>>, <<22, 23>>}

\* baseline, 'if tree is None: return postbody, 0, '''
UnparsableReturn(postbody) == <<postbody, PyInt(0), PyStr(<<>>)>>

\* the ld+json scripts of the pages given to baseline; the pattern
\* '"articlebody":"(.+?)","' captures one character at least
BaselineScripts ==
    [kind : {"none", "other", "nomatch"}, text : {<<>>}]
        \cup [kind : {"match"}, text : BaselineTexts \ {<<>>}]

RECURSIVE UniqueEntries(_, _, _)
\* baseline, 'for element in tree.iter(...)': 'if entry not in results'
UniqueEntries(entries, i, results) ==
    IF i > Len(entries) THEN <<>>
    ELSE IF entries[i] \in results THEN UniqueEntries(entries, i + 1, results)
    ELSE <<entries[i]>> \o UniqueEntries(entries, i + 1, results \cup {entries[i]})

RECURSIVE JoinLines(_, _)
\* '\n'.join(postbody.itertext()): an element without text yields nothing
JoinLines(ps, i) ==
    IF i > Len(ps) THEN <<>>
    ELSE IF ps[i] = <<>> THEN JoinLines(ps, i + 1)
    ELSE IF JoinLines(ps, i + 1) = <<>> THEN ps[i]
    ELSE ps[i] \o <<NL>> \o JoinLines(ps, i + 1)

BasInit ==
    /\ \E parsable \in BOOLEAN,
          script \in BaselineScripts,
          article \in [present : BOOLEAN, text : BaselineTexts],
          n \in 0..MaxParagraphs :
          \E paragraphs \in [1..n -> BaselineTexts] :
             bas = [pc |-> "call", parsable |-> parsable, script |-> script,
                    article |-> article, paragraphs |-> paragraphs,
                    postbody |-> <<>>, temp_text |-> PyStr(<<>>), len_text |-> PyInt(0),
                    path |-> "none"]
    /\ arb = Idle /\ run = Idle /\ ext = Idle /\ txt = Idle /\ san = Idle
    /\ tab = Idle /\ out = Idle /\ tei = Idle /\ cmp = Idle /\ cap = Idle
    /\ chk = Idle /\ scr = Idle

\* postbody, temp_text, len_text = <the tuple that baseline returns>; the
\* content tree is the sequence of the texts of its p elements
Unpack(b, path, triple) ==
    [b EXCEPT !.pc = "done", !.path = path, !.postbody = triple[1],
              !.temp_text = triple[2], !.len_text = triple[3]]

\* if tree is None: return postbody, 0, ''
BaselineUnparsable ==
    /\ bas.pc = "call" /\ ~bas.parsable
    /\ bas' = Unpack(bas, "unparsable", UnparsableReturn(<<>>))
    /\ UNCHANGED notBas

\* if mymatch: ... return postbody, elem.text, len(elem.text)
BaselineJson ==
    /\ bas.pc = "call" /\ bas.parsable
    /\ bas.script.kind = "match"
    /\ bas' = Unpack(bas, "json", <<<<bas.script.text>>, PyStr(bas.script.text),
                                   PyInt(Len(bas.script.text))>>)
    /\ UNCHANGED notBas

\* if article_elem is not None: ... if len_text > 0: return postbody, temp_text, len_text
BaselineArticle ==
    /\ bas.pc = "call" /\ bas.parsable
    /\ bas.script.kind # "match"
    /\ bas.article.present /\ Len(bas.article.text) > 0
    /\ bas' = Unpack(bas, "article", <<<<bas.article.text>>, PyStr(bas.article.text),
                                      PyInt(Len(bas.article.text))>>)
    /\ UNCHANGED notBas

\* temp_text = trim('\n'.join(postbody.itertext()))
\* return postbody, temp_text, len(temp_text)
BaselineParagraphs ==
    /\ bas.pc = "call" /\ bas.parsable
    /\ bas.script.kind # "match"
    /\ ~bas.article.present \/ Len(bas.article.text) = 0
    /\ LET postbody == UniqueEntries(bas.paragraphs, 1, {})
           temp_text == JoinLines(postbody, 1)
       IN bas' = Unpack(bas, "paragraphs", <<postbody, PyStr(temp_text), PyInt(Len(temp_text))>>)
    /\ UNCHANGED notBas

BasNext ==
    \/ BaselineUnparsable
    \/ BaselineJson
    \/ BaselineArticle
    \/ BaselineParagraphs

SpecBaseline == BasInit /\ [][BasNext]_vars


(***************************************************************************)
(* scraping.py: the module-level palmareslist and calls of getinfo.        *)
(*   palmareslist  the module-level list of rows                           *)
(*   sheet         the rows of bourse.xlsx                                 *)
(*   writer        the number of the call that wrote bourse.xlsx last, 0   *)
(*                 when no call has written it                             *)
(*   calls         the number of getinfo calls made                        *)
(*   last          what the last call ended with                           *)
(*   appended      the rows that each call appended, call by call (kept    *)
(*                 for the claims)                                         *)
(* A page is described by what getinfo reads in it: whether the data table *)
(* (with its tbody) is there, whether each tr holds all the cells, and     *)
(* whether the three option labels are there.                              *)
(***************************************************************************)

\* largest number of getinfo calls of a run
MaxGetinfoCalls == 3

\* largest number of rows of the data table of a page
MaxRows == 2

\* (indice, performance, period) of the calls of the module script
Requests == {<<"MASI", "UP", "DAY_1">>, <<"MADEX", "DOWN", "WEEK_1">>}

\* the pages that the site can answer with
Pages ==
    UNION {[table : BOOLEAN, rows : [1..n -> BOOLEAN], options : BOOLEAN] : n \in 0..MaxRows}

\* getinfo, 'palmare = {...}': the row built from the i-th tr of the page
\* that call k received
Palmare(k, request, i) == [page |-> k, request |-> request, item |-> i]

\* a list that is created anew inside each call
LocalList(palmareslist) == <<>>
\* getinfo assigns nothing to palmareslist: the rows are appended to the
\* module-level list created once by 'palmareslist = []'
GlobalList(palmareslist) == palmareslist

RECURSIVE ItemLoop(_, _, _, _, _)
\* getinfo, 'for item in palmares': item.find(...) and soup.find(...) give
\* None for a missing cell or label, '.text' then raises, and the rows
\* appended before stay in the list
ItemLoop(list, k, request, page, i) ==
    IF i > Len(page.rows) THEN [palmareslist |-> list, raised |-> FALSE]
    ELSE IF ~page.rows[i] \/ ~page.options THEN [palmareslist |-> list, raised |-> TRUE]
    ELSE ItemLoop(Append(list, Palmare(k, request, i)), k, request, page, i + 1)

\* getinfo, the try block for a page that was received
TryBlock(list, k, request, page) ==
    IF ~page.table THEN [palmareslist |-> list, raised |-> TRUE]
    ELSE ItemLoop(list, k, request, page, 1)

\* the state after a call of getinfo that returns
AfterGetinfo(s, request, page) ==
    Bind(TryBlock(GlobalList(s.palmareslist), s.calls + 1, request, page), LAMBDA t :
         [s EXCEPT !.calls = @ + 1,
                   !.palmareslist = t.palmareslist,
                   !.sheet = IF t.raised THEN @ ELSE t.palmareslist,
                   !.writer = IF t.raised THEN @ ELSE s.calls + 1,
                   !.last = [request |-> request, page |-> page,
                             ends |-> IF t.raised THEN "la page est vide" ELSE "written"],
                   !.appended = Append(@, SubSeq(t.palmareslist, Len(s.palmareslist) + 1,
                                                 Len(t.palmareslist)))])

ScrInit ==
    /\ scr = [pc |-> "script", palmareslist |-> <<>>, sheet |-> <<>>, writer |-> 0,
              calls |-> 0, appended |-> <<>>,
              last |-> [request |-> <<>>, page |-> [table |-> FALSE, rows |-> <<>>,
                                                     options |-> FALSE],
                        ends |-> "none"]]
    /\ arb = Idle /\ run = Idle /\ ext = Idle /\ txt = Idle /\ san = Idle
    /\ tab = Idle /\ out = Idle /\ tei = Idle /\ cmp = Idle /\ cap = Idle
    /\ chk = Idle /\ bas = Idle

\* r = requests.get(url, headers=headers) is outside the try block: an
\* exception of the request ends the call and the script
GetinfoRequestRaises ==
    /\ scr.pc = "script" /\ scr.calls < MaxGetinfoCalls
    /\ \E request \in Requests :
          scr' = [scr EXCEPT !.pc = "raised", !.calls = @ + 1, !.appended = Append(@, <<>>),
                             !.last = [request |-> request,
                                       page |-> [table |-> FALSE, rows |-> <<>>,
                                                 options |-> FALSE],
                                       ends |-> "raised"]]
    /\ UNCHANGED notScr

\* soup.find('table', ...) is None: except: print('la page est vide')
GetinfoNoTable ==
    /\ scr.pc = "script" /\ scr.calls < MaxGetinfoCalls
    /\ \E request \in Requests, page \in Pages :
          /\ ~page.table
          /\ scr' = AfterGetinfo(scr, request, page)
    /\ UNCHANGED notScr

\* a tr lacks a cell or the page lacks an option label
GetinfoRowRaises ==
    /\ scr.pc = "script" /\ scr.calls < MaxGetinfoCalls
    /\ \E request \in Requests, page \in Pages :
          /\ page.table
          /\ \E i \in DOMAIN page.rows : ~page.rows[i] \/ ~page.options
          /\ scr' = AfterGetinfo(scr, request, page)
    /\ UNCHANGED notScr

\* df = pd.DataFrame(palmareslist); df.to_excel('bourse.xlsx', index=False)
GetinfoWrites ==
    /\ scr.pc = "script" /\ scr.calls < MaxGetinfoCalls
    /\ \E request \in Requests, page \in Pages :
          /\ page.table
          /\ \A i \in DOMAIN page.rows : page.rows[i] /\ page.options
          /\ scr' = AfterGetinfo(scr, request, page)
    /\ UNCHANGED notScr

ScrNext ==
    \/ GetinfoRequestRaises
    \/ GetinfoNoTable
    \/ GetinfoRowRaises
    \/ GetinfoWrites

SpecScraping == ScrInit /\ [][ScrNext]_vars


(***************************************************************************)
(* Claims about compare_extraction, Step 1.                                *)
(***************************************************************************)

\* the ordered rule list of the specification: TRUE when the generic result is used
RuleListGeneric(lt, la, pt, ms) ==
    IF la = 0 \/ la = lt THEN FALSE
    ELSE IF lt = 0 /\ la > 0 THEN TRUE
    ELSE IF lt > 2 * la THEN FALSE
    ELSE IF la > 2 * lt THEN TRUE
    ELSE IF ~pt /\ la > ms THEN TRUE
    ELSE FALSE

\* C1: once Step 1 has decided, the generic result is chosen exactly when the
\* ordered rule list (first matching rule decides) prescribes it.
C1_Step1FollowsRuleList ==
    arb.pc = "step1_done" =>
        arb.algo_flag = RuleListGeneric(arb.len_text, arb.len_algo, arb.p_text, arb.min_size)

\* C1 witness: the borderline rule (5) has decided for the generic result.
C1_Witness ==
    /\ arb.pc = "step1_done" /\ arb.branch = 5 /\ arb.algo_flag
    /\ arb.len_text > 0 /\ ~arb.p_text

\* C2: before the decision exactly one branch of the chain applies, and after
\* it algo_flag has been assigned exactly once, by that branch.
C2_ExactlyOneBranch ==
    /\ arb.pc \in {"step1", "step1_done"} =>
           Cardinality({k \in 1..6 : BranchTaken(arb, k)}) = 1
    /\ arb.pc = "step1_done" => arb.assigned = 1 /\ BranchTaken(arb, arb.branch)

\* C2 witness: a decision made by the default branch, with one assignment.
C2_Witness ==
    arb.pc = "step1_done" /\ arb.branch = 6 /\ arb.assigned = 1 /\ arb.len_text > 0

\* C3 as stated: with 50 custom and 40 generic characters the custom result is
\* kept, whatever the custom tree and the threshold.
C3_Original ==
    (arb.pc = "step1_done" /\ arb.len_text = 50 /\ arb.len_algo = 40) => ~arb.algo_flag

\* C3 amended: with 50 custom and 40 generic characters the custom result is
\* kept provided the custom tree has paragraph-level text or the threshold is
\* at least 40 (otherwise the borderline rule picks the generic result).
C3_KeepsCustomUnlessBorderline ==
    (/\ arb.pc = "step1_done" /\ arb.len_text = 50 /\ arb.len_algo = 40
     /\ (arb.p_text \/ arb.min_size >= 40)) => ~arb.algo_flag

\* C3 witness: the 50/40 scenario decided by the default branch for a tree
\* without paragraph-level text.
C3_Witness ==
    /\ arb.pc = "step1_done" /\ arb.len_text = 50 /\ arb.len_algo = 40
    /\ ~arb.p_text /\ arb.min_size = 40 /\ arb.branch = 6 /\ ~arb.algo_flag

(***************************************************************************)
(* Claims about the gating pipeline.                                       *)
(***************************************************************************)

\* C6: once a gating check has failed, no pipeline step after that check has
\* run, bare_extraction returns the all-None tuple and extract returns None;
\* neither the fingerprint nor a serializer is ever reached.
C6_DiscardShortCircuits ==
    run.pc # "idle" /\ run.failed # {} =>
        /\ \A g \in run.failed : \A i \in 1..Len(run.ran) :
              StepIndex(run.ran[i]) <= StepIndex(g)
        /\ run.pc \in {"except", "extract", "done"}
        /\ run.bare \in {"pending", "none"}
        /\ run.pc \in {"extract", "done"} => run.bare = "none"
        /\ run.result \in {"pending", "None"}
        /\ run.pc = "done" => run.result = "None"

\* C6 witness: a json run discarded by the size check has ended with None.
C6_Witness ==
    /\ run.pc = "done" /\ run.failed = {"size_checks"} /\ run.result = "None"
    /\ run.cfg.output_format = "json"
    /\ run.ran[Len(run.ran)] = "size_checks"

\* the run has got past the choice between arbiter and baseline
PastArbitration ==
    /\ run.pc # "idle"
    /\ "extract_content" \in Range(run.ran)
    /\ run.pc \notin {"compare_extraction", "baseline"}

\* C15: compare_extraction and baseline never both run; compare_extraction
\* runs exactly when no_fallback is false, baseline exactly when no_fallback
\* is true, sure_thing is false and len_text is below MIN_EXTRACTED_SIZE, and
\* otherwise the result of extract_content is what the run carries on with.
C15_ArbiterXorBaseline ==
    PastArbitration =>
        /\ ~("compare_extraction" \in Range(run.ran) /\ "baseline" \in Range(run.ran))
        /\ ("compare_extraction" \in Range(run.ran)) <=> ~run.cfg.no_fallback
        /\ ("baseline" \in Range(run.ran))
              <=> (run.cfg.no_fallback /\ ~run.sure_thing /\ run.short_text)
        /\ run.content =
              (IF ~run.cfg.no_fallback THEN "compare_extraction"
               ELSE IF ~run.sure_thing /\ run.short_text THEN "baseline"
               ELSE "extract_content")

\* C15 witness: a run without comparison whose extraction was unsure and
\* short has ended with the result of baseline, the arbiter not having run.
C15_Witness ==
    /\ run.pc = "done" /\ run.result = "string"
    /\ run.cfg.no_fallback /\ ~run.sure_thing /\ run.short_text
    /\ run.content = "baseline"
    /\ "baseline" \in Range(run.ran) /\ "compare_extraction" \notin Range(run.ran)

(***************************************************************************)
(* Claims about extract_comments and extract_content.                      *)
(***************************************************************************)

\* the tokens of a text
Tokens(s) == Range(s)

\* a text holds no token twice
NoRepeat(s) == \A i, j \in DOMAIN s : s[i] = s[j] => i = j

\* the text that was inside the subtree when the document was given
OriginalText(n) == Tokens(ext.A0[n].text) \cup Tokens(IterTextKids(ext.A0, ext.A0[n].kids, 1))

\* C4: comments are extracted before the main content; when extract_comments
\* returns a non-empty comments tree the matched subtree has been removed from
\* the document, and the content tree (and the text) that the following
\* extract_content returns holds no text that was inside that subtree.
C4_NoDetachedTextInContent ==
    /\ (ext.pc # "idle" /\ ext.postbody # None /\ ext.include_comments) =>
          ext.commentsbody # None
    /\ (ext.pc \in {"content", "done"} /\ ext.commentsbody # None
           /\ ext.AC[ext.commentsbody].kids # <<>>) =>
          /\ ext.removed # None
          /\ Root(ext.AC, ext.removed) # ext.tree
          /\ Root(ext.A, ext.removed) # ext.tree
    /\ (ext.pc = "done" /\ ext.removed # None) =>
          /\ Tokens(IterText(ext.A, ext.postbody)) \cap OriginalText(ext.removed) = {}
          /\ Tokens(ext.temp_text) \cap OriginalText(ext.removed) = {}

\* C4 witness: a comments section with text of its own was harvested and
\* detached, and the content pass that followed harvested the text next to it.
C4_Witness ==
    /\ ext.pc = "done" /\ ext.removed # None
    /\ ext.A0[ext.removed].text # <<>>
    /\ ext.A[ext.commentsbody].kids # <<>>
    /\ ext.temp_text # <<>>

\* C5 as stated: when extract_comments returns an empty comments tree, the
\* document is as it was given: every element has its tag, text, tail and
\* children.
C5_Original ==
    (ext.pc = "content" /\ ext.commentsbody # None /\ ext.A[ext.commentsbody].kids = <<>>) =>
        \A n \in DOMAIN ext.A0 : ext.A[n] = ext.A0[n]

\* C7 as stated: the text of a source node is emitted into the content tree
\* at most once.
C7_Original ==
    ext.pc = "done" => NoRepeat(IterText(ext.A, ext.postbody))

\* the closed vocabulary of the content tree
ContentVocabulary ==
    {"p", "head", "list", "item", "quote", "table", "row", "cell", "lb", "hi", "fw"}

\* C10 as stated: below its body root the content tree returned by
\* extract_content holds only nodes with a tag of the closed vocabulary.
C10_Original ==
    ext.pc = "done" =>
        \A n \in Nodes(ext.A, ext.postbody) \ {ext.postbody} : ext.A[n].tag \in ContentVocabulary

\* the tags of the paragraph-equivalent blocks
ParagraphTags == {"blockquote", "code", "p", "pre", "q", "quote"}

\* the top-level paragraph-equivalent blocks of a document, in source order:
\* the blocks that lie inside no other block
TopLevelBlocks(A, root) ==
    SelectSeq(Pre(A, root),
              LAMBDA n : /\ A[n].tag \in ParagraphTags
                         /\ \A m \in Nodes(A, root) \ {n} :
                               A[m].tag \in ParagraphTags => n \notin Nodes(A, m))

RECURSIVE BlocksText(_, _, _)
\* the text of a list of blocks, block after block
BlocksText(A, bs, i) ==
    IF i > Len(bs) THEN <<>> ELSE IterText(A, bs[i]) \o BlocksText(A, bs, i + 1)

\* no element of the document given to extract_content matches a candidate query
NoCandidate == \A n \in Nodes(ext.AC, ext.tree) : ext.AC[n].match \notin Range(BODY_XPATH)

\* C11 as stated: when no candidate query matches, the content tree holds the
\* text of every top-level paragraph-equivalent block of the document given to
\* extract_content, each piece exactly once and in source order.
C11_Original ==
    (ext.pc = "done" /\ NoCandidate) =>
        LET blocks == BlocksText(ext.AC, TopLevelBlocks(ext.AC, ext.tree), 1)
        IN SelectSeq(IterText(ext.A, ext.postbody), LAMBDA t : t \in Tokens(blocks)) = blocks

\* the paragraphs with text inside a candidate subtree
SubtreePText(A, subtree) ==
    {n \in Nodes(A, subtree) : A[n].tag = "p" /\ IterText(A, n) # <<>>}

\* C19 as stated: for every candidate subtree that extract_content processes,
\* div is among the potential tags exactly when the candidate subtree holds
\* no paragraph with text, whatever paragraphs the rest of the document holds.
C19_Original ==
    ext.pc = "done" =>
        \A i \in 1..Len(ext.tried) :
            ~ext.tried[i].skipped =>
                ("div" \in ext.tried[i].potential_tags
                    <=> SubtreePText(ext.tried[i].seen, ext.tried[i].subtree) = {})

\* the position of a candidate query in BODY_XPATH, 0 for any other value
QueryIndex(q) ==
    IF q \in Range(BODY_XPATH) THEN CHOOSE k \in DOMAIN BODY_XPATH : BODY_XPATH[k] = q
    ELSE 0

\* the elements a later candidate query selects, outside the subtree at which
\* the loop stopped
LaterCandidates(A, tree, last) ==
    {n \in Nodes(A, tree) : /\ QueryIndex(A[n].match) > last.expr
                            /\ n \notin Nodes(A, last.subtree)
                            /\ last.subtree \notin Nodes(A, n)}

\* C20: extract_content takes the candidates in the order of BODY_XPATH and
\* stops at the first one that leaves the content tree non-empty: no earlier
\* candidate left anything, and what a later query selects is left as it was
\* (when wild recovery did not run).  sure_thing is true exactly when the loop
\* stopped at such a candidate, and then the content is not empty; content
\* that wild recovery alone produced leaves it false.
C20_StopsAtFirstProductiveCandidate ==
    ext.pc = "done" =>
        LET t == ext.tried
            last == t[Len(t)]
        IN /\ \A i, j \in 1..Len(t) : i < j => t[i].expr < t[j].expr
           /\ \A i \in 1..Len(t) - 1 : ~t[i].found
           /\ ext.sure_thing <=> (t # <<>> /\ last.found)
           /\ ext.sure_thing => ext.A[ext.postbody].kids # <<>>
           /\ (ext.sure_thing /\ ~ext.recovered) =>
                  \A n \in LaterCandidates(ext.AC, ext.tree, last) :
                      \A m \in Nodes(ext.AC, n) : ext.A[m] = ext.AC[m]
           /\ (ext.recovered /\ \A i \in 1..Len(t) : ~t[i].found) => ~ext.sure_thing

\* the first candidate matched and left nothing, the loop went on to the
\* second one and stopped there with the content
C20_Witness ==
    /\ ext.pc = "done" /\ ext.sure_thing /\ ~ext.recovered
    /\ Len(ext.tried) = 2
    /\ ext.tried[1].expr = 1 /\ ~ext.tried[1].found
    /\ ext.tried[2].expr = 2 /\ ext.tried[2].found
    /\ ext.A[ext.postbody].kids # <<>>


(***************************************************************************)
(* Claims about xmltotxt.                                                  *)
(***************************************************************************)

RECURSIVE FlatText(_, _)
\* the texts of a returned string in order, delimiters and joining spaces
\* left out
FlatText(s, i) ==
    IF i > Len(s) THEN <<>>
    ELSE SelectSeq(s[i].text, LAMBDA t : t # SPACE) \o FlatText(s, i + 1)

\* C8 as stated: the text that xmltotxt returns is, delimiters ignored, the
\* text and tail of every node of the content tree in document order.
C8_Original ==
    txt.pc = "done" => FlatText(txt.posttext, 1) = IterText(txt.A0, txt.postbody)


(***************************************************************************)
(* Claims about sanitize_tree.                                             *)
(***************************************************************************)

\* the text inside the elements that sanitize_tree removes outright: their
\* own text and everything below them, the text after them not included
SanitizedText ==
    UNION {Tokens(IterText(san.A0, n)) :
              n \in {m \in DOMAIN san.A0 : san.A0[m].tag \in SANITIZED_TAGS}}

\* C9 as stated: the text of the sanitized tree is the text of the tree that
\* was given minus the text inside the removed elements.
C9_Original ==
    san.pc = "done" =>
        /\ Tokens(IterText(san.A, san.body)) = Tokens(IterText(san.A0, san.body)) \ SanitizedText
        /\ NoRepeat(IterText(san.A, san.body))
        /\ san.text = IterText(san.A, san.body)


(***************************************************************************)
(* Claims about handle_table.                                              *)
(***************************************************************************)

\* the cells of the source table that have text, in source order
SourceCells == SelectSeq(Pre(tab.A0, tab.table_elem),
                         LAMBDA n : tab.A0[n].tag \in {"td", "th"} /\ tab.A0[n].text # <<>>)

\* the number of tr elements met in source order up to the element n
RowsBefore(n) ==
    LET order == Pre(tab.A0, tab.table_elem)
        at == CHOOSE i \in DOMAIN order : order[i] = n
    IN Cardinality({i \in 1..at : tab.A0[order[i]].tag = "tr"})

\* the cells of the table that handle_table returned, row after row
EmittedCells == IF tab.result = None THEN <<>> ELSE Tail(Pre(tab.A, tab.result))

\* the table that handle_table returned holds one cell per source cell with
\* text, in source order, grouped at the tr boundaries, header cells marked,
\* no empty cell and no empty row; it is None exactly when no cell had text
TableContract ==
    LET rows == IF tab.result = None THEN <<>> ELSE tab.A[tab.result].kids
        cells == SelectSeq(EmittedCells, LAMBDA n : tab.A[n].tag = "cell")
    IN /\ (tab.result = None) <=> (SourceCells = <<>>)
       /\ \A i \in DOMAIN rows : tab.A[rows[i]].tag = "row" /\ tab.A[rows[i]].kids # <<>>
       /\ Len(cells) = Len(SourceCells)
       /\ Len(EmittedCells) = Len(rows) + Len(cells)
       /\ \A i \in DOMAIN cells :
             /\ i \in DOMAIN SourceCells
             /\ tab.A[cells[i]].text = tab.A0[SourceCells[i]].text
             /\ tab.A[cells[i]].text # <<>>
             /\ tab.A[cells[i]].role = (IF tab.A0[SourceCells[i]].tag = "th" THEN "head" ELSE "")
       /\ \A i, j \in DOMAIN cells :
             (i \in DOMAIN SourceCells /\ j \in DOMAIN SourceCells) =>
                ((Parent(tab.A, cells[i]) = Parent(tab.A, cells[j]))
                    <=> (RowsBefore(SourceCells[i]) = RowsBefore(SourceCells[j])))

\* the source table holds no other table
NoNestedTable == \A n \in Nodes(tab.A0, tab.table_elem) \ {tab.table_elem} : tab.A0[n].tag # "table"

\* C12 as stated: the contract holds for every source table.
C12_Original == tab.pc = "done" => TableContract

\* C12 amended: for every source table that holds no nested table, handle_table
\* emits one cell per td/th with text, in source order and grouped into rows at
\* the tr boundaries, th cells with role=head and td cells without role, no
\* empty cell, no empty row, and None exactly when no cell had text.
C12_TableContractWithoutNesting == (tab.pc = "done" /\ NoNestedTable) => TableContract

\* C12 witness: a table without nesting gave two rows, the first of them with
\* a header cell, and a source cell without text was left out.
C12_Witness ==
    /\ tab.pc = "done" /\ NoNestedTable /\ tab.result # None
    /\ Len(tab.A[tab.result].kids) = 2
    /\ tab.A[tab.A[tab.A[tab.result].kids[1]].kids[1]].role = "head"
    /\ \E n \in Nodes(tab.A0, tab.table_elem) : tab.A0[n].tag = "td" /\ tab.A0[n].text = <<>>


(***************************************************************************)
(* Claims about the txt output.                                            *)
(***************************************************************************)

\* C13 as stated: the txt output of a content tree and a non-empty comments
\* tree holds the blank-line separator that xmltotxt appends at the comments
\* container.
C13_Original ==
    (out.pc = "done" /\ out.commentsbody # None /\ out.A[out.commentsbody].kids # <<>>) =>
        \E i \in DOMAIN out.returnstring : out.returnstring[i].delim = "\n\n"


(***************************************************************************)
(* Claims about the tree size sanity check.                                *)
(***************************************************************************)

\* the number of nodes of a content tree, its body root not counted
NodeCount(A, postbody) == Cardinality(Nodes(A, postbody) \ {postbody})

\* C14 as stated: with max_tree_size set, a content tree of more nodes than
\* the cap has its hi nodes stripped exactly once; the run is discarded
\* exactly when the node count still exceeds the cap, so a tree that is kept
\* has at most max_tree_size nodes.
C14_Original ==
    (cap.pc = "done" /\ cap.max_tree_size # 0) =>
        /\ (NodeCount(cap.A0, cap.postbody) > cap.max_tree_size) <=> (cap.stripped = 1)
        /\ cap.stripped <= 1
        /\ (cap.outcome = "discarded") <=> (NodeCount(cap.A, cap.postbody) > cap.max_tree_size)
        /\ (cap.outcome = "kept") => (NodeCount(cap.A, cap.postbody) <= cap.max_tree_size)


(***************************************************************************)
(* Claims about validate_tei.                                              *)
(***************************************************************************)

\* C16 as stated: whatever the number of calls and threads, at most one
\* RelaxNG object is ever constructed and no assignment replaces the object
\* that later calls reuse.
C16_Original ==
    tei.pc = "running" => (tei.built <= 1 /\ ~tei.replaced)


(***************************************************************************)
(* Claims about compare_extraction as a whole.                             *)
(***************************************************************************)

\* C17 as stated: no failure of a generic algorithm ends compare_extraction
\* with an exception; after a failure of readability len_algo is 0 and Step 1
\* keeps the custom result; after a failure of justext, justext_rescue reports
\* no success and returns the body, text and length it was given.
C17_Original ==
    cmp.pc # "idle" =>
        /\ cmp.pc # "raised"
        /\ (cmp.readability \notin {"none", "ok"} /\ cmp.pc \in {"step2", "done"}) =>
              (cmp.len_algo = 0 /\ ~cmp.algo_flag /\ cmp.chosen.body = "custom")
        /\ (cmp.justext \notin {"none", "ok"} /\ cmp.pc = "done") =>
              (~cmp.jt_result /\ cmp.returned = cmp.given)

\* C18 as stated: in the structural override the result of justext replaces
\* the chosen result only when its text is longer than the chosen text.
C18_Original ==
    (cmp.pc = "done" /\ cmp.step2 = "override" /\ cmp.body = "justext") =>
        cmp.len_jt > cmp.chosen.len_text



(***************************************************************************)
(* Claims about check_tei.                                                 *)
(***************************************************************************)

\* C21 as stated: after check_tei no element below the body has a tag outside
\* the TEI vocabulary, and the text of the body is the text it had before, in
\* the same order: the text, the tail and the descendants' text of every
\* removed element are still there.
C21_Original ==
    chk.pc = "done" =>
        /\ \A n \in Nodes(chk.A, chk.tei) : chk.A[n].tag \in TEI_VALID_TAGS
        /\ SelectSeq(IterText(chk.A, chk.tei), LAMBDA t : t # SPACE)
               = IterText(chk.A0, chk.tei)


(***************************************************************************)
(* Claims about baseline.                                                  *)
(***************************************************************************)

\* C22 as stated: whatever return path baseline takes, the unparsable input
\* included, the second value unpacked is the text (a string) and the third
\* one is the length of that text (an integer).
C22_Original ==
    bas.pc = "done" =>
        /\ bas.temp_text.type = "str"
        /\ bas.len_text.type = "int"
        /\ bas.len_text.val = Len(bas.temp_text.val)


(***************************************************************************)
(* Claims about the json output.                                           *)
(***************************************************************************)

\* C23 as stated: with json output and include_comments disabled, extract
\* ends with None or with a serialized string; the absent comments tree never
\* makes the serialization fail.
C23_Original ==
    (run.pc = "done" /\ run.cfg.output_format = "json" /\ ~run.cfg.include_comments) =>
        run.result \in {"None", "string"}


(***************************************************************************)
(* Claims about scraping.py.                                               *)
(***************************************************************************)

RECURSIVE Flatten(_, _)
\* the rows that the first n calls appended, in the order of the calls
Flatten(ss, n) == IF n = 0 THEN <<>> ELSE Flatten(ss, n - 1) \o ss[n]

\* C24: palmareslist is at any time the rows that the calls appended, call
\* after call, none removed and none moved; and the spreadsheet that a call
\* has just written holds the rows of every earlier call followed by the
\* rows of that call, whatever was requested.
C24_ListOnlyGrows ==
    scr.pc # "idle" =>
        /\ scr.palmareslist = Flatten(scr.appended, Len(scr.appended))
        /\ scr.last.ends = "written" =>
              /\ scr.sheet = Flatten(scr.appended, scr.calls - 1) \o scr.appended[scr.calls]
              /\ scr.appended[scr.calls]
                    = [i \in 1..Len(scr.last.page.rows) |->
                          Palmare(scr.calls, scr.last.request, i)]

\* a second call for other values has written the spreadsheet, which holds
\* the rows of the first call before its own
C24_Witness ==
    /\ scr.calls = 2 /\ scr.last.ends = "written"
    /\ Len(scr.appended[1]) > 0 /\ Len(scr.appended[2]) > 0
    /\ scr.appended[1][1].request # scr.last.request
    /\ scr.writer = 2 /\ Len(scr.sheet) = Len(scr.appended[1]) + Len(scr.appended[2])


\* C25 as stated: a call that fails while it parses the page returns to its
\* caller, writes no spreadsheet and leaves palmareslist as it was: no row of
\* the failed page is appended.
C25_Original ==
    scr.last.ends = "la page est vide" =>
        /\ scr.pc = "script"
        /\ scr.writer # scr.calls
        /\ scr.appended[scr.calls] = <<>>

=============================================================================
